---- MODULE Spec2Model ----
(***************************************************************************)
(* Community Calendar backend (src/main.py): the event/RSVP store behind   *)
(* the HTTP handlers, the recurrence expansion generate_recurring_events,  *)
(* and the SQLite connection discipline of get_db.                         *)
(*                                                                         *)
(* Optional (nullable) values are encoded as sequences of length at most   *)
(* one: None is <<>> and a present value v is <<v>>.                       *)
(***************************************************************************)
EXTENDS Integers, Sequences, FiniteSets, TLC

VARIABLES
    events,        \* committed rows of table events
    rsvps,         \* committed rows of table rsvps
    nextEventId,   \* AUTOINCREMENT counter of events
    nextRsvpId,    \* AUTOINCREMENT counter of rsvps
    last,          \* the response to the most recent request
    gen,           \* the frame of a running generate_recurring_events call
    del,           \* the connection of an in-flight delete_event request
    seen,          \* what a reader on another connection last observed
    cre,           \* the connections of in-flight create_event requests
    rsv            \* the connections of in-flight RSVP requests

vars == <<events, rsvps, nextEventId, nextRsvpId, last, gen, del, seen, cre,
         rsv>>

----------------------------------------------------------------------------
(* Optional values *)

None == <<>>
Some(v) == <<v>>
IsNone(x) == x = <<>>
Val(x) == x[1]

\* Python truthiness of an Optional[bool], Optional[int], Optional[str]
TruthyBool(x) == x # None /\ Val(x) = TRUE
TruthyInt(x) == x # None /\ Val(x) # 0
TruthyStr(x) == x # None /\ Val(x) # ""

----------------------------------------------------------------------------
(* datetime.date: proleptic Gregorian dates, years 1..MAXYEAR *)

MAXYEAR == 9999

Date(y, m, d) == [year |-> y, month |-> m, day |-> d]

is_leap(y) == y % 4 = 0 /\ (y % 100 # 0 \/ y % 400 = 0)

days_in_month(y, m) ==
    IF m = 2 THEN (IF is_leap(y) THEN 29 ELSE 28)
    ELSE IF m \in {4, 6, 9, 11} THEN 30 ELSE 31

days_before_year(y) ==
    (y - 1) * 365 + ((y - 1) \div 4) - ((y - 1) \div 100) + ((y - 1) \div 400)

RECURSIVE days_before_month(_, _)
days_before_month(y, m) ==
    IF m = 1 THEN 0 ELSE days_before_month(y, m - 1) + days_in_month(y, m - 1)

toordinal(d) == days_before_year(d.year) + days_before_month(d.year, d.month) + d.day

MAXORDINAL == toordinal(Date(MAXYEAR, 12, 31))

\* datetime._ord2ymd
fromordinal(n) ==
    LET n0 == n - 1
        n400 == n0 \div 146097
        r400 == n0 % 146097
        n100 == r400 \div 36524
        r100 == r400 % 36524
        n4 == r100 \div 1461
        r4 == r100 % 1461
        n1 == r4 \div 365
        r1 == r4 % 365
        year == n400 * 400 + 1 + n100 * 100 + n4 * 4 + n1
    IN  IF n1 = 4 \/ n100 = 4
        THEN Date(year - 1, 12, 31)
        ELSE LET m == CHOOSE k \in 1..12 :
                        /\ days_before_month(year, k) <= r1
                        /\ r1 < days_before_month(year, k) + days_in_month(year, k)
             IN  Date(year, m, r1 - days_before_month(year, m) + 1)

\* date comparison
DateLe(a, b) == toordinal(a) <= toordinal(b)
DateLt(a, b) == toordinal(a) < toordinal(b)

\* The result of a date computation: a date, or a raised exception.
Raised == [raised |-> TRUE]
Ok(d) == [raised |-> FALSE, value |-> d]

\* date + timedelta(days=n): OverflowError outside 1..MAXORDINAL
add_days(d, n) ==
    LET o == toordinal(d) + n
    IN  IF 0 < o /\ o <= MAXORDINAL THEN Ok(fromordinal(o)) ELSE Raised

\* a relativedelta that lets a day past the end of the target month run
\* over into the following month instead of clamping it
add_relativedelta_rollover(d, ys, ms) ==
    LET years == ys + (ms \div 12)
        months == ms % 12
        m0 == d.month + months
        year == d.year + years + (IF m0 > 12 THEN 1 ELSE 0)
        month == IF m0 > 12 THEN m0 - 12 ELSE m0
    IN  IF year > MAXYEAR THEN Raised
        ELSE LET dim == days_in_month(year, month)
             IN  IF d.day <= dim THEN Ok(Date(year, month, d.day))
                 ELSE IF month = 12 THEN Ok(Date(year + 1, 1, d.day - dim))
                 ELSE Ok(Date(year, month + 1, d.day - dim))

\* date + relativedelta(years=ys, months=ms): the month count is normalised
\* into years and months (at most 11), the day is clamped to the last day
\* of the target month, and a year past MAXYEAR raises ValueError.
add_relativedelta(d, ys, ms) ==
    LET years == ys + (ms \div 12)
        months == ms % 12
        m0 == d.month + months
        year == d.year + years + (IF m0 > 12 THEN 1 ELSE 0)
        month == IF m0 > 12 THEN m0 - 12 ELSE m0
    IN  IF year > MAXYEAR THEN Raised
        ELSE LET dim == days_in_month(year, month)
             IN  Ok(Date(year, month, IF d.day < dim THEN d.day ELSE dim))

----------------------------------------------------------------------------
(* generate_recurring_events *)

MaxIterations == 1000

\* an early return taken only when both tests fail
NotRecurring_both(base_event) ==
    ~TruthyBool(base_event.is_recurring) /\ ~TruthyStr(base_event.recurrence_type)

\* line 241: the early return with no occurrences
NotRecurring(base_event) ==
    ~TruthyBool(base_event.is_recurring) \/ ~TruthyStr(base_event.recurrence_type)

\* line 251: the horizon of the expansion
MaxDate(base_event) ==
    IF base_event.recurrence_end_date # None
    THEN Ok(Val(base_event.recurrence_end_date))
    ELSE add_relativedelta(base_event.event_date, 2, 0)

\* a loop condition without the safety limit
LoopCond_nolimit(current_date, max_date, iteration_count) ==
    DateLe(current_date, max_date)

\* line 254: the loop condition
LoopCond(current_date, max_date, iteration_count) ==
    DateLe(current_date, max_date) /\ iteration_count < MaxIterations

\* a test that lets the original date through
IsOccurrence_inclusive(current_date, base_event) ==
    DateLe(base_event.event_date, current_date)

\* line 255: the original event is not repeated
IsOccurrence(current_date, base_event) ==
    DateLt(base_event.event_date, current_date)

\* lines 256-258: a copy of the base event at the occurrence date
RecurringEvent(base_event, current_date) ==
    [k \in DOMAIN base_event \cup {"parent_event_id"} |->
        IF k = "event_date" THEN current_date
        ELSE IF k = "parent_event_id" THEN base_event.id
        ELSE base_event[k]]

\* lines 262-269: the next running date; a None interval makes timedelta and
\* relativedelta raise TypeError, a type outside the four leaves the date alone
NextDate(current_date, recurrence_type, interval) ==
    IF recurrence_type \notin {"daily", "weekly", "monthly", "yearly"}
    THEN Ok(current_date)
    ELSE IF interval = None THEN Raised
    ELSE IF recurrence_type = "daily" THEN add_days(current_date, Val(interval))
    ELSE IF recurrence_type = "weekly" THEN add_days(current_date, 7 * Val(interval))
    ELSE IF recurrence_type = "monthly" THEN add_relativedelta(current_date, 0, Val(interval))
    ELSE add_relativedelta(current_date, Val(interval), 0)

\* lines 254-271 as a whole; the result is the list, or raised
RECURSIVE GenLoop(_, _, _, _, _)
GenLoop(base_event, max_date, current_date, iteration_count, acc) ==
    IF ~LoopCond(current_date, max_date, iteration_count)
    THEN [raised |-> FALSE, events |-> acc]
    ELSE LET acc2 == IF IsOccurrence(current_date, base_event)
                     THEN Append(acc, RecurringEvent(base_event, current_date))
                     ELSE acc
             nxt == NextDate(current_date, Val(base_event.recurrence_type),
                             base_event.recurrence_interval)
         IN  IF nxt.raised
             THEN [raised |-> TRUE, events |-> <<>>]
             ELSE GenLoop(base_event, max_date, nxt.value, iteration_count + 1, acc2)

generate_recurring_events(base_event) ==
    IF NotRecurring(base_event)
    THEN [raised |-> FALSE, events |-> <<>>]
    ELSE LET md == MaxDate(base_event)
         IN  IF md.raised
             THEN [raised |-> TRUE, events |-> <<>>]
             ELSE GenLoop(base_event, md.value, base_event.event_date, 0, <<>>)

----------------------------------------------------------------------------
(* The call frame of generate_recurring_events, one loop iteration a step *)

\* the dict built by create_event at lines 338-354
BaseEventDict(id, e) ==
    [id |-> id, title |-> e.title, description |-> e.description,
     event_date |-> e.event_date, event_time |-> e.event_time,
     organizer |-> e.organizer, is_recurring |-> e.is_recurring,
     recurrence_type |-> e.recurrence_type,
     recurrence_interval |-> e.recurrence_interval,
     recurrence_end_date |-> e.recurrence_end_date,
     location_type |-> e.location_type, location_name |-> e.location_name,
     location_address |-> e.location_address,
     online_meeting_url |-> e.online_meeting_url,
     max_attendees |-> e.max_attendees]

\* an EventCreate request body: the recurrence fields vary, the rest is fixed
EventCreate(d, rec, type, interval, end_date, cap) ==
    [title |-> "Community BBQ", description |-> None,
     event_date |-> d, event_time |-> Some(<<"1", "8", ":", "0", "0">>),
     organizer |-> Some("Community Center"), is_recurring |-> rec,
     recurrence_type |-> type, recurrence_interval |-> interval,
     recurrence_end_date |-> end_date,
     location_type |-> "in_person", location_name |-> Some("Central Park"),
     location_address |-> None, online_meeting_url |-> None,
     max_attendees |-> cap]

\* the rules the expansion is run on
GenRules ==
    { EventCreate(Date(2024, 1, 31), Some(TRUE), Some("monthly"), Some(1), None, None),
      EventCreate(Date(2024, 1, 31), Some(TRUE), Some("monthly"), Some(1),
                  Some(Date(2024, 4, 30)), None),
      EventCreate(Date(2023, 12, 31), Some(TRUE), Some("monthly"), Some(13), None, None),
      EventCreate(Date(2024, 2, 29), Some(TRUE), Some("yearly"), Some(1), None, None),
      EventCreate(Date(2024, 2, 29), Some(TRUE), Some("yearly"), Some(4),
                  Some(Date(2032, 2, 29)), None),
      EventCreate(Date(2024, 1, 1), Some(TRUE), Some("daily"), Some(1),
                  Some(Date(2027, 6, 1)), None),
      EventCreate(Date(2024, 1, 1), Some(TRUE), Some("daily"), Some(365), None, None),
      EventCreate(Date(2024, 1, 1), Some(TRUE), Some("weekly"), Some(2),
                  Some(Date(2024, 12, 31)), None),
      EventCreate(Date(2024, 1, 1), Some(TRUE), Some("weekly"), Some(1),
                  Some(Date(2024, 1, 15)), None),
      EventCreate(Date(2024, 6, 1), Some(TRUE), Some("weekly"), Some(1),
                  Some(Date(2024, 1, 1)), None),
      EventCreate(Date(2024, 6, 1), Some(TRUE), Some("daily"), Some(1),
                  Some(Date(2024, 6, 1)), None),
      EventCreate(Date(2024, 1, 1), Some(TRUE), Some("weekly"), None,
                  Some(Date(2024, 1, 15)), None),
      EventCreate(Date(2024, 1, 1), Some(FALSE), Some("weekly"), Some(1),
                  Some(Date(2024, 1, 15)), None),
      EventCreate(Date(2024, 1, 1), Some(TRUE), None, Some(1),
                  Some(Date(2024, 1, 15)), None),
      EventCreate(Date(2024, 1, 1), None, Some("daily"), Some(1), None, None),
      EventCreate(Date(2024, 1, 1), Some(FALSE), None, Some(1), None, None),
      EventCreate(Date(9998, 6, 1), Some(TRUE), Some("yearly"), Some(1), None, None),
      EventCreate(Date(9999, 12, 30), Some(TRUE), Some("daily"), Some(1),
                  Some(Date(9999, 12, 31)), None),
      \* a dict whose recurrence_type none of the branches at 262-269 matches:
      \* the case the safety limit of line 254 is there for
      EventCreate(Date(2024, 1, 1), Some(TRUE), Some("hourly"), Some(1), None, None) }

GenIdle == [pc |-> "idle"]

\* entry of the call with its argument bound
GenFrame(base_event) == [pc |-> "call", base_event |-> base_event]

\* lines 241-253
GenEnter ==
    /\ gen.pc = "call"
    /\ gen' = IF NotRecurring(gen.base_event)
              THEN [pc |-> "returned", base_event |-> gen.base_event, events |-> <<>>]
              ELSE LET md == MaxDate(gen.base_event)
                   IN  IF md.raised
                       THEN [pc |-> "raised", base_event |-> gen.base_event,
                             events |-> <<>>]
                       ELSE [pc |-> "loop", base_event |-> gen.base_event,
                             events |-> <<>>,
                             current_date |-> gen.base_event.event_date,
                             max_date |-> md.value,
                             iteration_count |-> 0]
    /\ UNCHANGED <<events, rsvps, nextEventId, nextRsvpId, last, del, seen, cre,
                 rsv>>

\* lines 254-271: one iteration of the loop
GenIterate ==
    /\ gen.pc = "loop"
    /\ LoopCond(gen.current_date, gen.max_date, gen.iteration_count)
    /\ LET acc2 == IF IsOccurrence(gen.current_date, gen.base_event)
                   THEN Append(gen.events,
                               RecurringEvent(gen.base_event, gen.current_date))
                   ELSE gen.events
           nxt == NextDate(gen.current_date, Val(gen.base_event.recurrence_type),
                           gen.base_event.recurrence_interval)
       IN  gen' = IF nxt.raised
                  THEN [gen EXCEPT !.pc = "raised", !.events = acc2]
                  ELSE [gen EXCEPT !.events = acc2,
                                   !.current_date = nxt.value,
                                   !.iteration_count = @ + 1]
    /\ UNCHANGED <<events, rsvps, nextEventId, nextRsvpId, last, del, seen, cre,
                 rsv>>

\* lines 254, 273: the loop condition fails and the list is returned
GenReturn ==
    /\ gen.pc = "loop"
    /\ ~LoopCond(gen.current_date, gen.max_date, gen.iteration_count)
    /\ gen' = [gen EXCEPT !.pc = "returned"]
    /\ UNCHANGED <<events, rsvps, nextEventId, nextRsvpId, last, del, seen, cre,
                 rsv>>

\* the rows of an open transaction, not yet visible to other connections
NoTx == <<>>
Tx(evs, rs) == <<[events |-> evs, rsvps |-> rs]>>

\* the connection of the request: where the handler stands, its transaction,
\* and the rows its DELETE statements removed
DelConn(pc, event_id, tx, deleted_events, deleted_rsvps) ==
    [pc |-> pc, event_id |-> event_id, tx |-> tx,
     deleted_events |-> deleted_events, deleted_rsvps |-> deleted_rsvps]

\* no delete_event request in flight
DelIdle == DelConn("idle", 0, NoTx, {}, {})

\* the processes that serve requests, each with a connection of its own
Connections == {"A", "B"}

\* no create_event request in flight on any connection
CreIdle == [c \in Connections |-> [pc |-> "idle"]]

\* no RSVP request in flight on any connection
RsvIdle == [c \in Connections |-> [pc |-> "idle"]]
NoResponse == [op |-> "none", code |-> 0, detail |-> ""]
NothingSeen == [events |-> {}, rsvps |-> {}]

InitGen ==
    /\ events = {}
    /\ rsvps = {}
    /\ nextEventId = 1
    /\ nextRsvpId = 1
    /\ last = NoResponse
    /\ del = DelIdle
    /\ seen = NothingSeen
    /\ cre = CreIdle
    /\ rsv = RsvIdle
    /\ gen \in {GenFrame(BaseEventDict(1, e)) : e \in GenRules}

NextGen == GenEnter \/ GenIterate \/ GenReturn

SpecGen == InitGen /\ [][NextGen]_vars

\* a call that was entered keeps running until it returns or raises
SpecGenFair == SpecGen /\ WF_vars(NextGen)

----------------------------------------------------------------------------
(* The store: tables events and rsvps behind one SQLite file *)

MaxEventId == 2    \* create_event is taken while the next event id is at most this
MaxRsvpId == 2     \* create_rsvp is taken while the next RSVP id is at most this

\* sqlite3.connect leaves PRAGMA foreign_keys at SQLite's default, off, so the
\* ON DELETE CASCADE clause of rsvps.event_id is not enforced
ForeignKeys == FALSE

\* the answer to a request: the handler, the HTTP status and the error detail
Response(op, code, detail) == [op |-> op, code |-> code, detail |-> detail]

\* the sqlite3 adapter of datetime.date: the text YYYY-MM-DD, as its fields
isoformat(d) == <<d.year, d.month, d.day>>

\* the sqlite3 adapter of bool and of Optional values
AdaptBool(b) == IF b = None THEN None ELSE Some(IF Val(b) THEN 1 ELSE 0)
AdaptDate(d) == IF d = None THEN None ELSE Some(isoformat(Val(d)))

\* lines 58-59, 584: column updated_at holds the CURRENT_TIMESTAMP of the INSERT
\* (its DEFAULT) until an UPDATE sets it to the CURRENT_TIMESTAMP of that UPDATE
AtInsert == "CURRENT_TIMESTAMP of the INSERT"
AtUpdate == "CURRENT_TIMESTAMP of the UPDATE"

\* lines 321-331: the row of the event itself
ParentRow(id, e) ==
    [id |-> id, title |-> e.title, description |-> e.description,
     date |-> isoformat(e.event_date), time |-> e.event_time,
     organizer |-> e.organizer, is_recurring |-> AdaptBool(e.is_recurring),
     recurrence_type |-> e.recurrence_type,
     recurrence_interval |-> e.recurrence_interval,
     recurrence_end_date |-> AdaptDate(e.recurrence_end_date),
     parent_event_id |-> None,
     location_type |-> e.location_type, location_name |-> e.location_name,
     location_address |-> e.location_address,
     online_meeting_url |-> e.online_meeting_url,
     max_attendees |-> e.max_attendees,
     updated_at |-> AtInsert]

\* an occurrence row that keeps the recurrence fields of the base event
ChildRow_keepsrule(id, rec_event) ==
    [id |-> id, title |-> rec_event.title, description |-> rec_event.description,
     date |-> isoformat(rec_event.event_date), time |-> rec_event.event_time,
     organizer |-> rec_event.organizer,
     is_recurring |-> AdaptBool(rec_event.is_recurring),
     recurrence_type |-> rec_event.recurrence_type,
     recurrence_interval |-> rec_event.recurrence_interval,
     recurrence_end_date |-> AdaptDate(rec_event.recurrence_end_date),
     parent_event_id |-> Some(rec_event.parent_event_id),
     location_type |-> rec_event.location_type,
     location_name |-> rec_event.location_name,
     location_address |-> rec_event.location_address,
     online_meeting_url |-> rec_event.online_meeting_url,
     max_attendees |-> rec_event.max_attendees,
     updated_at |-> AtInsert]

\* lines 359-369: the row of one occurrence
ChildRow(id, rec_event) ==
    [id |-> id, title |-> rec_event.title, description |-> rec_event.description,
     date |-> isoformat(rec_event.event_date), time |-> rec_event.event_time,
     organizer |-> rec_event.organizer, is_recurring |-> Some(0),
     recurrence_type |-> None,
     recurrence_interval |-> None,
     recurrence_end_date |-> None,
     parent_event_id |-> Some(rec_event.parent_event_id),
     location_type |-> rec_event.location_type,
     location_name |-> rec_event.location_name,
     location_address |-> rec_event.location_address,
     online_meeting_url |-> rec_event.online_meeting_url,
     max_attendees |-> rec_event.max_attendees,
     updated_at |-> AtInsert]

\* lines 358-369: one INSERT per occurrence, ids in insertion order
ChildRows(first_id, recurring_events) ==
    {ChildRow(first_id + i - 1, recurring_events[i]) : i \in 1..Len(recurring_events)}

EventIds(evs) == {e.id : e \in evs}
EventById(evs, id) == CHOOSE e \in evs : e.id = id

\* the request bodies of create_event
EventCreates ==
    { EventCreate(Date(2024, 1, 1), Some(TRUE), Some("weekly"), Some(1),
                  Some(Date(2024, 1, 8)), Some(1)),
      EventCreate(Date(2024, 1, 1), Some(FALSE), None, Some(1), None, None),
      EventCreate(Date(2024, 1, 1), Some(TRUE), None, Some(1), None, None),
      EventCreate(Date(2024, 1, 1), Some(TRUE), Some("weekly"), None,
                  Some(Date(2024, 1, 15)), None) }

\* POST /api/events
create_event(e) ==
    /\ nextEventId <= MaxEventId
    /\ LET event_id == nextEventId
           parent == ParentRow(event_id, e)
           r == generate_recurring_events(BaseEventDict(event_id, e))
       IN  IF ~TruthyBool(e.is_recurring)
           THEN /\ events' = events \cup {parent}
                /\ nextEventId' = event_id + 1
                /\ last' = Response("create_event", 200, "")
           ELSE IF r.raised
           THEN \* the parent was committed at line 334; the handler answers 500
                /\ events' = events \cup {parent}
                /\ nextEventId' = event_id + 1
                /\ last' = Response("create_event", 500, "Failed to create event")
           ELSE /\ events' = events \cup {parent} \cup ChildRows(event_id + 1, r.events)
                /\ nextEventId' = event_id + 1 + Len(r.events)
                /\ last' = Response("create_event", 200, "")
    /\ UNCHANGED <<rsvps, nextRsvpId, gen, del, seen, cre, rsv>>

\* an EventUpdate request body: only the fields that are not None are applied
EventUpdate(rec, type, cap) ==
    [title |-> None, description |-> None, event_date |-> None,
     event_time |-> None, organizer |-> None, is_recurring |-> rec,
     recurrence_type |-> type, recurrence_interval |-> None,
     recurrence_end_date |-> None, location_type |-> None,
     location_name |-> None, location_address |-> None,
     online_meeting_url |-> None, max_attendees |-> cap]

EventUpdates ==
    { EventUpdate(None, None, None),
      EventUpdate(Some(TRUE), Some("daily"), None),
      EventUpdate(None, None, Some(1)) }

\* lines 559-574: the column each request field is written to
field_mappings(u) ==
    [title |-> u.title, description |-> u.description,
     date |-> AdaptDate(u.event_date), time |-> u.event_time,
     organizer |-> u.organizer, is_recurring |-> AdaptBool(u.is_recurring),
     recurrence_type |-> u.recurrence_type,
     recurrence_interval |-> u.recurrence_interval,
     recurrence_end_date |-> AdaptDate(u.recurrence_end_date),
     location_type |-> u.location_type, location_name |-> u.location_name,
     location_address |-> u.location_address,
     online_meeting_url |-> u.online_meeting_url,
     max_attendees |-> u.max_attendees]

\* the columns that always hold a value; the others hold an Optional
NotNullColumns == {"title", "date", "location_type"}

\* an UPDATE built from the fields that are truthy, not from those that are
\* not None
UpdatedRow_truthy(row, u) ==
    LET fm == field_mappings(u)
    IN  [k \in DOMAIN row |->
            IF k = "updated_at" THEN AtUpdate
            ELSE IF k \in DOMAIN fm /\ fm[k] # None
                    /\ ~(k = "is_recurring" /\ fm[k] = Some(0))
            THEN (IF k \in NotNullColumns THEN Val(fm[k]) ELSE fm[k])
            ELSE row[k]]

\* lines 576-588: the row after UPDATE ... SET of the present fields
UpdatedRow(row, u) ==
    LET fm == field_mappings(u)
    IN  [k \in DOMAIN row |->
            IF k = "updated_at" THEN AtUpdate
            ELSE IF k \in DOMAIN fm /\ fm[k] # None
            THEN (IF k \in NotNullColumns THEN Val(fm[k]) ELSE fm[k])
            ELSE row[k]]

\* PUT /api/events/{event_id}
update_event(event_id, u) ==
    /\ IF event_id \notin EventIds(events)
       THEN /\ last' = Response("update_event", 404, "Event not found")
            /\ UNCHANGED events
       ELSE IF \A k \in DOMAIN field_mappings(u) : field_mappings(u)[k] = None
       THEN /\ last' = Response("update_event", 400, "No fields to update")
            /\ UNCHANGED events
       ELSE /\ events' = (events \ {EventById(events, event_id)})
                            \cup {UpdatedRow(EventById(events, event_id), u)}
            /\ last' = Response("update_event", 200, "")
    /\ UNCHANGED <<rsvps, nextEventId, nextRsvpId, gen, del, seen, cre,
                 rsv>>

\* line 639: DELETE FROM rsvps WHERE event_id = ?
RsvpsOfEvent(rs, event_id) == {r \in rs : r.event_id = event_id}

\* line 642: DELETE FROM events WHERE id = ? OR parent_event_id = ?
EventAndInstances(evs, event_id) ==
    {e \in evs : e.id = event_id \/ e.parent_event_id = Some(event_id)}

\* line 74: rows removed by ON DELETE CASCADE, when foreign keys are enforced
Cascaded(rs, deleted_events) ==
    IF ForeignKeys THEN {r \in rs : r.event_id \in EventIds(deleted_events)} ELSE {}

\* DELETE /api/events/{event_id}
delete_event(event_id) ==
    /\ IF event_id \notin EventIds(events)
       THEN /\ last' = Response("delete_event", 404, "Event not found")
            /\ UNCHANGED <<events, rsvps>>
       ELSE LET gone == EventAndInstances(events, event_id)
                rs1 == rsvps \ RsvpsOfEvent(rsvps, event_id)
            IN  /\ rsvps' = rs1 \ Cascaded(rs1, gone)
                /\ events' = events \ gone
                /\ last' = Response("delete_event", 200, "")
    /\ UNCHANGED <<nextEventId, nextRsvpId, gen, del, seen, cre, rsv>>

----------------------------------------------------------------------------
(* RSVPs *)

\* an RSVPCreate request body
RSVPCreate(email, status) ==
    [attendee_name |-> "John Doe", attendee_email |-> email,
     status |-> status, notes |-> None]

\* the request bodies served next to the event handlers; those with an
\* attendee email are RsvpEmailCreates
RSVPCreates == {RSVPCreate(None, status) : status \in {"going", "maybe"}}

\* an RSVPUpdate request body
RSVPUpdate(status, notes) == [status |-> status, notes |-> notes]

RSVPUpdates ==
    {RSVPUpdate(status, None) : status \in {None, Some("going"), Some("maybe")}}

RsvpRow(id, event_id, rsvp) ==
    [id |-> id, event_id |-> event_id, attendee_name |-> rsvp.attendee_name,
     attendee_email |-> rsvp.attendee_email, status |-> rsvp.status,
     notes |-> rsvp.notes]

\* lines 670-671, 775-776: SELECT COUNT(*) ... AND status = 'going'
current_going(rs, event_id) ==
    Cardinality({r \in rs : r.event_id = event_id /\ r.status = "going"})

\* a capacity check that lets one RSVP past the cap
CreateAtCapacity_offbyone(evs, rs, event_id, rsvp) ==
    LET event_row == EventById(evs, event_id)
    IN  /\ TruthyInt(event_row.max_attendees)
        /\ rsvp.status = "going"
        /\ current_going(rs, event_id) > Val(event_row.max_attendees)

\* lines 669-673: the capacity check of create_rsvp
CreateAtCapacity(evs, rs, event_id, rsvp) ==
    LET event_row == EventById(evs, event_id)
    IN  /\ TruthyInt(event_row.max_attendees)
        /\ rsvp.status = "going"
        /\ current_going(rs, event_id) >= Val(event_row.max_attendees)

\* lines 676-681: the duplicate check of create_rsvp
EmailExists(rs, event_id, rsvp) ==
    /\ TruthyStr(rsvp.attendee_email)
    /\ \E r \in rs : r.event_id = event_id /\ r.attendee_email = rsvp.attendee_email

\* a table rsvps declared without the UNIQUE constraint
UniqueViolated_unconstrained(rs, event_id, rsvp) == FALSE

\* line 75: UNIQUE(event_id, attendee_email); NULL emails never collide
UniqueViolated(rs, event_id, rsvp) ==
    /\ rsvp.attendee_email # None
    /\ \E r \in rs : r.event_id = event_id /\ r.attendee_email = rsvp.attendee_email

\* POST /api/events/{event_id}/rsvp
create_rsvp(event_id, rsvp) ==
    /\ nextRsvpId <= MaxRsvpId
    /\ IF event_id \notin EventIds(events)
       THEN /\ last' = Response("create_rsvp", 404, "Event not found")
            /\ UNCHANGED <<rsvps, nextRsvpId>>
       ELSE IF CreateAtCapacity(events, rsvps, event_id, rsvp)
       THEN /\ last' = Response("create_rsvp", 400, "Event is at maximum capacity")
            /\ UNCHANGED <<rsvps, nextRsvpId>>
       ELSE IF EmailExists(rsvps, event_id, rsvp)
       THEN /\ last' = Response("create_rsvp", 400, "RSVP already exists for this email")
            /\ UNCHANGED <<rsvps, nextRsvpId>>
       ELSE IF UniqueViolated(rsvps, event_id, rsvp)
       THEN /\ last' = Response("create_rsvp", 500, "Failed to create RSVP")
            /\ UNCHANGED <<rsvps, nextRsvpId>>
       ELSE /\ rsvps' = rsvps \cup {RsvpRow(nextRsvpId, event_id, rsvp)}
            /\ nextRsvpId' = nextRsvpId + 1
            /\ last' = Response("create_rsvp", 200, "")
    /\ UNCHANGED <<events, nextEventId, gen, del, seen, cre, rsv>>

\* line 765: SELECT * FROM rsvps WHERE id = ? AND event_id = ?
RsvpExists(rs, event_id, rsvp_id) ==
    \E r \in rs : r.id = rsvp_id /\ r.event_id = event_id

RsvpById(rs, rsvp_id) == CHOOSE r \in rs : r.id = rsvp_id

\* line 771: the request moves the RSVP into going
ChangesToGoing(existing_rsvp, rsvp_update) ==
    rsvp_update.status = Some("going") /\ existing_rsvp.status # "going"

\* lines 774-778: the capacity check of update_rsvp
UpdateAtCapacity(evs, rs, event_id) ==
    LET event_row == EventById(evs, event_id)
    IN  /\ TruthyInt(event_row.max_attendees)
        /\ current_going(rs, event_id) >= Val(event_row.max_attendees)

\* lines 784-799: the row after the UPDATE
UpdatedRsvp(row, rsvp_update) ==
    [row EXCEPT !.status = IF rsvp_update.status # None
                           THEN Val(rsvp_update.status) ELSE @,
                !.notes = IF rsvp_update.notes # None THEN rsvp_update.notes ELSE @]

\* PUT /api/events/{event_id}/rsvp/{rsvp_id}
update_rsvp(event_id, rsvp_id, rsvp_update) ==
    /\ IF ~RsvpExists(rsvps, event_id, rsvp_id)
       THEN /\ last' = Response("update_rsvp", 404, "RSVP not found")
            /\ UNCHANGED rsvps
       ELSE IF /\ ChangesToGoing(RsvpById(rsvps, rsvp_id), rsvp_update)
               /\ event_id \notin EventIds(events)
       THEN \* line 774: event_row is None, the subscript raises TypeError
            /\ last' = Response("update_rsvp", 500, "Failed to update RSVP")
            /\ UNCHANGED rsvps
       ELSE IF /\ ChangesToGoing(RsvpById(rsvps, rsvp_id), rsvp_update)
               /\ UpdateAtCapacity(events, rsvps, event_id)
       THEN /\ last' = Response("update_rsvp", 400, "Event is at maximum capacity")
            /\ UNCHANGED rsvps
       ELSE IF rsvp_update.status = None /\ rsvp_update.notes = None
       THEN /\ last' = Response("update_rsvp", 400, "No fields to update")
            /\ UNCHANGED rsvps
       ELSE /\ rsvps' = (rsvps \ {RsvpById(rsvps, rsvp_id)})
                            \cup {UpdatedRsvp(RsvpById(rsvps, rsvp_id), rsvp_update)}
            /\ last' = Response("update_rsvp", 200, "")
    /\ UNCHANGED <<events, nextEventId, nextRsvpId, gen, del, seen, cre,
                 rsv>>

\* DELETE /api/events/{event_id}/rsvp/{rsvp_id}
delete_rsvp(event_id, rsvp_id) ==
    /\ IF ~RsvpExists(rsvps, event_id, rsvp_id)
       THEN /\ last' = Response("delete_rsvp", 404, "RSVP not found")
            /\ UNCHANGED rsvps
       ELSE /\ rsvps' = rsvps \ {RsvpById(rsvps, rsvp_id)}
            /\ last' = Response("delete_rsvp", 200, "")
    /\ UNCHANGED <<events, nextEventId, nextRsvpId, gen, del, seen, cre,
                 rsv>>

----------------------------------------------------------------------------
(* GET /api/calendar/export.ics *)

\* Text is a sequence of one-character strings; a line of the document is a
\* sequence of pieces, each a character or a stored text value taken whole.

\* the code point of a character of a time text
ord(c) ==
    CASE c = "0" -> 48 [] c = "1" -> 49 [] c = "2" -> 50 [] c = "3" -> 51
      [] c = "4" -> 52 [] c = "5" -> 53 [] c = "6" -> 54 [] c = "7" -> 55
      [] c = "8" -> 56 [] c = "9" -> 57 [] c = ":" -> 58

chr(n) ==
    CASE n = 48 -> "0" [] n = 49 -> "1" [] n = 50 -> "2" [] n = 51 -> "3"
      [] n = 52 -> "4" [] n = 53 -> "5" [] n = 54 -> "6" [] n = 55 -> "7"
      [] n = 56 -> "8" [] n = 57 -> "9" [] n = 58 -> ":"

\* str(n) and f"{n}" of a non-negative int
RECURSIVE str(_)
str(n) == IF n < 10 THEN <<chr(48 + n)>> ELSE str(n \div 10) \o <<chr(48 + (n % 10))>>

\* int(s) of a text of digits
RECURSIVE int(_)
int(s) ==
    IF Len(s) = 0 THEN 0
    ELSE 10 * int(SubSeq(s, 1, Len(s) - 1)) + (ord(s[Len(s)]) - 48)

\* line 982: row["time"].split(":") of a text with one colon
split(s) ==
    LET i == CHOOSE k \in 1..Len(s) : s[k] = ":"
    IN  <<SubSeq(s, 1, i - 1), SubSeq(s, i + 1, Len(s))>>

\* SQLite's BINARY collation of two texts: the first differing character
\* decides, and a proper prefix sorts first
TextLess(a, b) ==
    \/ \E i \in 1..Len(a) :
          /\ i <= Len(b)
          /\ \A j \in 1..(i - 1) : a[j] = b[j]
          /\ ord(a[i]) < ord(b[i])
    \/ Len(a) < Len(b) /\ \A j \in 1..Len(a) : a[j] = b[j]

\* the stored dates are zero-padded YYYY-MM-DD texts, ordered as their fields
SeqLess(a, b) ==
    \E i \in 1..Len(a) :
        /\ i <= Len(b)
        /\ \A j \in 1..(i - 1) : a[j] = b[j]
        /\ a[i] < b[i]

\* ORDER BY ... time ASC on the TEXT column: NULL sorts first
TimeLess(s, t) ==
    IF s = None THEN t # None
    ELSE IF t = None THEN FALSE
    ELSE TextLess(Val(s), Val(t))

\* line 971: ORDER BY date ASC, time ASC; equal keys keep rowid order
RowBefore(a, b) ==
    \/ SeqLess(a.date, b.date)
    \/ a.date = b.date /\ TimeLess(a.time, b.time)
    \/ a.date = b.date /\ a.time = b.time /\ a.id < b.id

RECURSIVE OrderedRows(_)
OrderedRows(evs) ==
    IF evs = {} THEN <<>>
    ELSE LET first == CHOOSE a \in evs : \A b \in evs \ {a} : RowBefore(a, b)
         IN  <<first>> \o OrderedRows(evs \ {first})

\* datetime.fromisoformat of the stored date, with hour and minute replaced
DateTime(iso, hour, minute) ==
    [year |-> iso[1], month |-> iso[2], day |-> iso[3],
     hour |-> hour, minute |-> minute, second |-> 0]

\* lines 980-985
event_start(row) ==
    IF TruthyStr(row.time)
    THEN LET parts == split(Val(row.time))
         IN  DateTime(row.date, int(parts[1]), int(parts[2]))
    ELSE DateTime(row.date, 0, 0)

\* line 987: start + timedelta(hours=1); past 9999-12-31 it raises OverflowError
event_end(start) ==
    IF start.hour < 23 THEN Ok([start EXCEPT !.hour = @ + 1])
    ELSE LET nd == add_days(Date(start.year, start.month, start.day), 1)
         IN  IF nd.raised THEN Raised
             ELSE Ok([year |-> nd.value.year, month |-> nd.value.month,
                      day |-> nd.value.day, hour |-> 0,
                      minute |-> start.minute, second |-> 0])

\* %m, %d, %H, %M, %S: two digits
zfill2(n) == <<chr(48 + (n \div 10)), chr(48 + (n % 10))>>

\* strftime("%Y%m%dT%H%M%SZ"); the C library's %Y writes the year without
\* leading zeros
strftime(dt) ==
    str(dt.year) \o zfill2(dt.month) \o zfill2(dt.day) \o <<"T">>
    \o zfill2(dt.hour) \o zfill2(dt.minute) \o zfill2(dt.second) \o <<"Z">>

\* location parts whose meeting URL is taken for online events only
location_parts_onlineonly(row) ==
    LET location_type == row.location_type
    IN  IF location_type = "online" /\ TruthyStr(row.online_meeting_url)
        THEN << <<"Online: ", Val(row.online_meeting_url)>> >>
        ELSE IF location_type \in {"in_person", "hybrid"}
        THEN (IF TruthyStr(row.location_name)
              THEN << <<Val(row.location_name)>> >> ELSE <<>>)
             \o (IF TruthyStr(row.location_address)
                 THEN << <<Val(row.location_address)>> >> ELSE <<>>)
        ELSE <<>>

\* lines 1006-1017: the parts of the location, each a text
location_parts(row) ==
    LET location_type == row.location_type
    IN  IF location_type = "online" /\ TruthyStr(row.online_meeting_url)
        THEN << <<"Online: ", Val(row.online_meeting_url)>> >>
        ELSE IF location_type \in {"in_person", "hybrid"}
        THEN (IF TruthyStr(row.location_name)
              THEN << <<Val(row.location_name)>> >> ELSE <<>>)
             \o (IF TruthyStr(row.location_address)
                 THEN << <<Val(row.location_address)>> >> ELSE <<>>)
             \o (IF location_type = "hybrid" /\ TruthyStr(row.online_meeting_url)
                 THEN << <<"Online option: ", Val(row.online_meeting_url)>> >>
                 ELSE <<>>)
        ELSE <<>>

\* line 1020: ', '.join(location_parts)
RECURSIVE join(_, _)
join(sep, parts) ==
    IF parts = <<>> THEN <<>>
    ELSE IF Len(parts) = 1 THEN parts[1]
    ELSE parts[1] \o <<sep>> \o join(sep, Tail(parts))

\* str.upper on the recurrence type
upper(t) ==
    CASE t = "daily" -> "DAILY"
      [] t = "weekly" -> "WEEKLY"
      [] t = "monthly" -> "MONTHLY"
      [] t = "yearly" -> "YEARLY"
      [] OTHER -> t

\* lines 1023-1032
rrule_lines(row) ==
    IF TruthyInt(row.is_recurring) /\ TruthyStr(row.recurrence_type)
    THEN << <<"RRULE:", "FREQ=", upper(Val(row.recurrence_type)), ";INTERVAL=">>
            \o str(IF row.recurrence_interval # None
                   THEN Val(row.recurrence_interval) ELSE 1)
            \o (IF row.recurrence_end_date # None
                THEN <<";UNTIL=">>
                     \o strftime(DateTime(Val(row.recurrence_end_date), 0, 0))
                ELSE <<>>) >>
    ELSE <<>>

\* line 989: the clock reading of datetime.utcnow(), left symbolic
dtstamp == <<"utcnow">>

\* a block whose DESCRIPTION line is written without the test of line 1000
VEvent_untesteddescription(row, dtend) ==
    << <<"BEGIN:VEVENT">>,
       <<"UID:">> \o str(row.id) \o <<"@communitycalendar">>,
       <<"DTSTAMP:">> \o dtstamp,
       <<"DTSTART:">> \o strftime(event_start(row)),
       <<"DTEND:">> \o strftime(dtend),
       <<"SUMMARY:", row.title>>,
       <<"DESCRIPTION:", IF row.description = None THEN "None"
                         ELSE Val(row.description)>> >>
    \o (IF TruthyStr(row.organizer)
        THEN << <<"ORGANIZER:", Val(row.organizer)>> >> ELSE <<>>)
    \o (IF location_parts(row) # <<>>
        THEN << <<"LOCATION:">> \o join(", ", location_parts(row)) >> ELSE <<>>)
    \o rrule_lines(row)
    \o << <<"END:VEVENT">> >>

\* lines 993-1034: the lines of one VEVENT block
VEvent(row, dtend) ==
    << <<"BEGIN:VEVENT">>,
       <<"UID:">> \o str(row.id) \o <<"@communitycalendar">>,
       <<"DTSTAMP:">> \o dtstamp,
       <<"DTSTART:">> \o strftime(event_start(row)),
       <<"DTEND:">> \o strftime(dtend),
       <<"SUMMARY:", row.title>> >>
    \o (IF TruthyStr(row.description)
        THEN << <<"DESCRIPTION:", Val(row.description)>> >> ELSE <<>>)
    \o (IF TruthyStr(row.organizer)
        THEN << <<"ORGANIZER:", Val(row.organizer)>> >> ELSE <<>>)
    \o (IF location_parts(row) # <<>>
        THEN << <<"LOCATION:">> \o join(", ", location_parts(row)) >> ELSE <<>>)
    \o rrule_lines(row)
    \o << <<"END:VEVENT">> >>

\* lines 979-1034: the lines of all blocks, or raised when one cannot be built
RECURSIVE VEvents(_)
VEvents(rows) ==
    IF rows = <<>> THEN [raised |-> FALSE, lines |-> <<>>]
    ELSE LET dtend == event_end(event_start(Head(rows)))
             rest == VEvents(Tail(rows))
         IN  IF dtend.raised \/ rest.raised
             THEN [raised |-> TRUE, lines |-> <<>>]
             ELSE [raised |-> FALSE,
                   lines |-> VEvent(Head(rows), dtend.value) \o rest.lines]

NoDocument == <<>>

\* lines 977, 1036: the envelope around the blocks
Document(lines) ==
    << <<"BEGIN:VCALENDAR">>, <<"VERSION:2.0">>,
       <<"PRODID:-//Community Calendar//EN">> >>
    \o lines
    \o << <<"END:VCALENDAR">> >>

\* an export that answers an empty store with an empty calendar
export_calendar_emptydocument ==
    /\ LET rows == OrderedRows(events)
       IN  IF VEvents(rows).raised
           THEN last' = [op |-> "export_calendar", code |-> 500,
                         detail |-> "Failed to export calendar",
                         content |-> NoDocument]
           ELSE last' = [op |-> "export_calendar", code |-> 200, detail |-> "",
                         content |-> Document(VEvents(rows).lines)]
    /\ UNCHANGED <<events, rsvps, nextEventId, nextRsvpId, gen, del, seen, cre,
                 rsv>>

export_calendar ==
    /\ LET rows == OrderedRows(events)
       IN  IF rows = <<>>
           THEN last' = [op |-> "export_calendar", code |-> 404,
                         detail |-> "No events found to export",
                         content |-> NoDocument]
           ELSE IF VEvents(rows).raised
           THEN last' = [op |-> "export_calendar", code |-> 500,
                         detail |-> "Failed to export calendar",
                         content |-> NoDocument]
           ELSE last' = [op |-> "export_calendar", code |-> 200, detail |-> "",
                         content |-> Document(VEvents(rows).lines)]
    /\ UNCHANGED <<events, rsvps, nextEventId, nextRsvpId, gen, del, seen, cre,
                 rsv>>

----------------------------------------------------------------------------
(* The requests served one at a time *)

Init ==
    /\ events = {}
    /\ rsvps = {}
    /\ nextEventId = 1
    /\ nextRsvpId = 1
    /\ last = NoResponse
    /\ gen = GenIdle
    /\ del = DelIdle
    /\ seen = NothingSeen
    /\ cre = CreIdle
    /\ rsv = RsvIdle

\* the ids a request may name: those handed out so far and one that was not
EventIdArgs == 1..nextEventId
RsvpIdArgs == 1..nextRsvpId

Next ==
    \/ \E e \in EventCreates : create_event(e)
    \/ \E id \in EventIdArgs, u \in EventUpdates : update_event(id, u)
    \/ \E id \in EventIdArgs : delete_event(id)
    \/ \E id \in EventIdArgs, rsvp \in RSVPCreates : create_rsvp(id, rsvp)
    \/ \E id \in EventIdArgs, rid \in RsvpIdArgs, u \in RSVPUpdates :
            update_rsvp(id, rid, u)
    \/ \E id \in EventIdArgs, rid \in RsvpIdArgs : delete_rsvp(id, rid)
    \/ export_calendar

Spec == Init /\ [][Next]_vars

----------------------------------------------------------------------------
(* delete_event statement by statement, next to other connections *)

\* a connection in autocommit mode: every statement is its own transaction
OpensTransaction_autocommit(statement) == FALSE

\* a connection of sqlite3.connect(DATABASE_URL) keeps the default
\* isolation_level: the module opens a transaction before the first INSERT,
\* UPDATE, DELETE or REPLACE, and it lasts until commit() or close()
OpensTransaction(statement) ==
    statement \in {"INSERT", "UPDATE", "DELETE", "REPLACE"}

\* the rows the connection itself reads: its transaction over the file
DelView == IF del.tx # NoTx THEN Val(del.tx) ELSE [events |-> events, rsvps |-> rsvps]

\* an open write transaction holds the file's write lock against other writers
WriteLocked == del.pc # "idle" /\ del.tx # NoTx

\* lines 632-636: the existence check
DelBegin(event_id) ==
    /\ del.pc = "idle"
    /\ IF event_id \notin EventIds(events)
       THEN /\ last' = Response("delete_event", 404, "Event not found")
            /\ del' = DelIdle
       ELSE /\ del' = DelConn("checked", event_id, NoTx, {}, {})
            /\ UNCHANGED last
    /\ UNCHANGED <<events, rsvps, nextEventId, nextRsvpId, gen, seen, cre,
                 rsv>>

\* line 639: DELETE FROM rsvps WHERE event_id = ?
DelRsvps ==
    /\ del.pc = "checked"
    /\ LET gone == RsvpsOfEvent(DelView.rsvps, del.event_id)
       IN  IF OpensTransaction("DELETE")
           THEN /\ del' = DelConn("rsvps_deleted", del.event_id,
                                  Tx(DelView.events, DelView.rsvps \ gone), {}, gone)
                /\ UNCHANGED <<events, rsvps>>
           ELSE /\ del' = DelConn("rsvps_deleted", del.event_id, NoTx, {}, gone)
                /\ rsvps' = rsvps \ gone
                /\ UNCHANGED events
    /\ UNCHANGED <<nextEventId, nextRsvpId, last, gen, seen, cre, rsv>>

\* line 642: DELETE FROM events WHERE id = ? OR parent_event_id = ?
DelEvents ==
    /\ del.pc = "rsvps_deleted"
    /\ LET gone == EventAndInstances(DelView.events, del.event_id)
           cascaded == Cascaded(DelView.rsvps, gone)
       IN  IF del.tx # NoTx \/ OpensTransaction("DELETE")
           THEN /\ del' = DelConn("events_deleted", del.event_id,
                                  Tx(DelView.events \ gone, DelView.rsvps \ cascaded),
                                  gone, del.deleted_rsvps \cup cascaded)
                /\ UNCHANGED <<events, rsvps>>
           ELSE /\ del' = DelConn("events_deleted", del.event_id, NoTx,
                                  gone, del.deleted_rsvps \cup cascaded)
                /\ events' = events \ gone
                /\ rsvps' = rsvps \ cascaded
    /\ UNCHANGED <<nextEventId, nextRsvpId, last, gen, seen, cre, rsv>>

\* lines 643-645: commit and answer
DelCommit ==
    /\ del.pc = "events_deleted"
    /\ events' = DelView.events
    /\ rsvps' = DelView.rsvps
    /\ last' = Response("delete_event", 200, "")
    /\ del' = DelConn("idle", del.event_id, NoTx, del.deleted_events, del.deleted_rsvps)
    /\ UNCHANGED <<nextEventId, nextRsvpId, gen, seen, cre, rsv>>

\* lines 107-110, 649-651: a statement raises, get_db closes the connection
\* without commit and the open transaction is rolled back
DelFail ==
    /\ del.pc \in {"checked", "rsvps_deleted", "events_deleted"}
    /\ last' = Response("delete_event", 500, "Failed to delete event")
    /\ del' = DelIdle
    /\ UNCHANGED <<events, rsvps, nextEventId, nextRsvpId, gen, seen, cre,
                 rsv>>

\* a SELECT on another connection returns the committed rows
Read ==
    /\ seen' = [events |-> events, rsvps |-> rsvps]
    /\ UNCHANGED <<events, rsvps, nextEventId, nextRsvpId, last, gen, del, cre,
                 rsv>>

\* requests of other connections that write wait for the write lock
OtherCreateEvent == ~WriteLocked /\ \E e \in EventCreates : create_event(e)
OtherCreateRsvp ==
    ~WriteLocked /\ \E id \in EventIdArgs, rsvp \in RSVPCreates : create_rsvp(id, rsvp)

NextDelete ==
    \/ \E id \in EventIdArgs : DelBegin(id)
    \/ DelRsvps
    \/ DelEvents
    \/ DelCommit
    \/ DelFail
    \/ Read
    \/ OtherCreateEvent
    \/ OtherCreateRsvp

SpecDelete == Init /\ [][NextDelete]_vars

----------------------------------------------------------------------------
(* The export over stores built by create_event *)

\* a text of a time of day
T0930 == <<"9", ":", "3", "0">>
T1800 == <<"1", "8", ":", "0", "0">>
T2330 == <<"2", "3", ":", "3", "0">>

\* a single event without description and organizer, in person, nothing else set
PlainEvent ==
    [EventCreate(Date(2024, 7, 15), Some(FALSE), None, Some(1), None, None)
        EXCEPT !.organizer = None, !.location_name = None, !.event_time = None]

\* the request bodies the export is run on: they differ in the optional
\* lines, the location, the time of day and the recurrence rule
ExportCreates ==
    { PlainEvent,
      [PlainEvent EXCEPT !.organizer = Some("Community Center")],
      [PlainEvent EXCEPT !.description = Some("Join us"),
                         !.event_time = Some(T0930),
                         !.location_name = Some("Central Park"),
                         !.location_address = Some("123 Park Avenue")],
      [PlainEvent EXCEPT !.event_time = Some(T1800),
                         !.location_name = Some(""),
                         !.location_address = Some("123 Park Avenue"),
                         !.online_meeting_url = Some("https://meet.example/1")],
      [PlainEvent EXCEPT !.location_type = "online",
                         !.online_meeting_url = Some("https://meet.example/1"),
                         !.location_name = Some("Central Park")],
      [PlainEvent EXCEPT !.location_type = "online",
                         !.location_address = Some("123 Park Avenue")],
      [PlainEvent EXCEPT !.location_type = "hybrid",
                         !.location_name = Some("Central Park"),
                         !.location_address = Some("123 Park Avenue"),
                         !.online_meeting_url = Some("https://meet.example/1")],
      [PlainEvent EXCEPT !.location_type = "hybrid",
                         !.online_meeting_url = Some("https://meet.example/1")],
      [PlainEvent EXCEPT !.location_type = "hybrid"],
      [PlainEvent EXCEPT !.is_recurring = Some(TRUE),
                         !.recurrence_type = Some("weekly"),
                         !.recurrence_interval = Some(2),
                         !.recurrence_end_date = Some(Date(2024, 7, 29)),
                         !.event_time = Some(T1800)],
      [PlainEvent EXCEPT !.is_recurring = Some(TRUE),
                         !.recurrence_type = Some("weekly"),
                         !.recurrence_interval = Some(2),
                         !.recurrence_end_date = Some(Date(2024, 12, 31)),
                         !.event_date = Date(2024, 12, 20)],
      [PlainEvent EXCEPT !.is_recurring = Some(TRUE),
                         !.recurrence_type = Some("yearly"),
                         !.event_date = Date(2024, 2, 29)],
      [PlainEvent EXCEPT !.is_recurring = Some(TRUE),
                         !.recurrence_type = Some("monthly"),
                         !.recurrence_interval = None],
      [PlainEvent EXCEPT !.is_recurring = Some(TRUE)],
      [PlainEvent EXCEPT !.recurrence_type = Some("daily"),
                         !.recurrence_end_date = Some(Date(2024, 7, 16))],
      [PlainEvent EXCEPT !.is_recurring = Some(TRUE),
                         !.recurrence_type = Some("weekly"),
                         !.event_date = Date(999, 12, 1),
                         !.recurrence_end_date = Some(Date(999, 12, 8))],
      [PlainEvent EXCEPT !.event_date = Date(9999, 12, 31),
                         !.event_time = Some(T2330)] }

NextExport ==
    \/ \E e \in ExportCreates : create_event(e)
    \/ export_calendar

SpecExport == Init /\ [][NextExport]_vars

----------------------------------------------------------------------------
(* get_rsvp_counts over the rows of a database file *)

MaxStored == 3     \* the rsvps table of the opened file holds at most this many rows

\* lines 278-283: the groups of SELECT status, COUNT(*) ... GROUP BY status
StatusGroups(rs, event_id) == {r.status : r \in RsvpsOfEvent(rs, event_id)}

\* lines 285-289: the three keys at 0, then one assignment per group
get_rsvp_counts(rs, event_id) ==
    [status \in {"going", "maybe", "not_going"} \cup StatusGroups(rs, event_id) |->
        Cardinality({r \in RsvpsOfEvent(rs, event_id) : r.status = status})]

\* the values of column status: TEXT NOT NULL without a CHECK constraint, so
\* a file written before the three statuses were fixed can hold another one
StoredStatuses == {"going", "maybe", "not_going", "waitlist"}

StoredRsvp(id, event_id, status) ==
    [id |-> id, event_id |-> event_id, attendee_name |-> "John Doe",
     attendee_email |-> None, status |-> status, notes |-> None]

\* init_db opens the calendar.db that is there (CREATE TABLE IF NOT EXISTS)
InitCounts ==
    /\ events = {ParentRow(1, PlainEvent), ParentRow(2, PlainEvent)}
    /\ nextEventId = 3
    /\ rsvps \in UNION {
            { {StoredRsvp(i, f[i][1], f[i][2]) : i \in 1..n} :
                f \in [1..n -> {1, 2} \X StoredStatuses] } : n \in 0..MaxStored }
    /\ nextRsvpId = Cardinality(rsvps) + 1
    /\ last = NoResponse
    /\ gen = GenIdle
    /\ del = DelIdle
    /\ seen = NothingSeen
    /\ cre = CreIdle
    /\ rsv = RsvIdle

\* lines 492, 595: a handler calls get_rsvp_counts for an event
CountRsvps(event_id) ==
    /\ last' = [op |-> "get_rsvp_counts", code |-> 200, detail |-> "",
                event_id |-> event_id,
                counts |-> get_rsvp_counts(rsvps, event_id)]
    /\ UNCHANGED <<events, rsvps, nextEventId, nextRsvpId, gen, del, seen, cre,
                 rsv>>

NextCounts == \E event_id \in EventIds(events) : CountRsvps(event_id)

SpecCounts == InitCounts /\ [][NextCounts]_vars

----------------------------------------------------------------------------
(* The RSVP handlers with every kind of attendee email *)

\* attendee_email is Optional[str] with only a maximum length: absent, the
\* empty text, or an address
RsvpEmailCreates ==
    {RSVPCreate(email, status) :
        email \in {None, Some(""), Some("john@example.com")},
        status \in {"going", "maybe"}}

NextRsvp ==
    \/ create_event(PlainEvent)
    \/ \E id \in EventIdArgs : delete_event(id)
    \/ \E id \in EventIdArgs, rsvp \in RsvpEmailCreates : create_rsvp(id, rsvp)
    \/ \E id \in EventIdArgs, rid \in RsvpIdArgs, u \in RSVPUpdates :
            update_rsvp(id, rid, u)
    \/ \E id \in EventIdArgs, rid \in RsvpIdArgs : delete_rsvp(id, rid)

SpecRsvp == Init /\ [][NextRsvp]_vars

----------------------------------------------------------------------------
(* update_event with patches of every kind *)

NoPatch == EventUpdate(None, None, None)

\* the request bodies of update_event: nothing, the texts and the date with
\* a true flag, and a false flag among other fields
UpdatePatches ==
    { NoPatch,
      [NoPatch EXCEPT !.title = Some("Renamed"),
                      !.event_date = Some(Date(2024, 8, 1)),
                      !.event_time = Some(T0930),
                      !.is_recurring = Some(TRUE),
                      !.recurrence_type = Some("daily")],
      [NoPatch EXCEPT !.is_recurring = Some(FALSE),
                      !.description = Some("Join us"),
                      !.location_type = Some("online"),
                      !.max_attendees = Some(1)] }

\* a weekly event with one further occurrence, and a single event
UpdateCreates ==
    { EventCreate(Date(2024, 1, 1), Some(TRUE), Some("weekly"), Some(1),
                  Some(Date(2024, 1, 8)), None),
      PlainEvent }

NextUpdate ==
    \/ \E e \in UpdateCreates : create_event(e)
    \/ \E id \in EventIdArgs, u \in UpdatePatches : update_event(id, u)
    \/ \E id \in EventIdArgs : create_rsvp(id, RSVPCreate(None, "going"))

SpecUpdate == Init /\ [][NextUpdate]_vars

----------------------------------------------------------------------------
(* The handlers that write events and RSVPs, without delete_event *)

NextCapacity ==
    \/ \E e \in EventCreates : create_event(e)
    \/ \E id \in EventIdArgs, u \in EventUpdates : update_event(id, u)
    \/ \E id \in EventIdArgs, rsvp \in RSVPCreates : create_rsvp(id, rsvp)
    \/ \E id \in EventIdArgs, rid \in RsvpIdArgs, u \in RSVPUpdates :
            update_rsvp(id, rid, u)
    \/ \E id \in EventIdArgs, rid \in RsvpIdArgs : delete_rsvp(id, rid)

SpecCapacity == Init /\ [][NextCapacity]_vars

----------------------------------------------------------------------------
(* create_event statement by statement on two connections *)

\* the request bodies: a weekly and a monthly event with two further
\* occurrences each
CreateBodies ==
    { EventCreate(Date(2024, 1, 1), Some(TRUE), Some("weekly"), Some(1),
                  Some(Date(2024, 1, 15)), None),
      EventCreate(Date(2024, 1, 31), Some(TRUE), Some("monthly"), Some(1),
                  Some(Date(2024, 3, 31)), None) }

\* the frame of a request: where the handler stands, its body, the id of its
\* parent row, the occurrences still to insert, and the rows of its open
\* transaction
CreFrame(pc, event, event_id, recurring_events, tx) ==
    [pc |-> pc, event |-> event, event_id |-> event_id,
     recurring_events |-> recurring_events, tx |-> tx]

\* a connection holds the file's write lock from its first INSERT to commit
HoldsLock(c) == cre[c].pc = "children" /\ cre[c].tx # {}
LockFree(c) == \A other \in Connections \ {c} : ~HoldsLock(other)

\* a parent id read from the table instead of from the request's own cursor
lastrowid_oftable(c) == nextEventId - 1

\* line 333: event_id = cursor.lastrowid, the id of the request's own INSERT
lastrowid(c) == cre[c].event_id

\* a request arrives
CrBegin(c, event) ==
    /\ cre[c].pc = "idle"
    /\ cre' = [cre EXCEPT ![c] = CreFrame("parent", event, 0, <<>>, {})]
    /\ UNCHANGED <<events, rsvps, nextEventId, nextRsvpId, last, gen, del, seen,
                 rsv>>

\* lines 321-334: INSERT of the event itself and commit; the transaction
\* waits for the write lock and publishes the row at the commit
CrParent(c) ==
    /\ cre[c].pc = "parent"
    /\ LockFree(c)
    /\ events' = events \cup {ParentRow(nextEventId, cre[c].event)}
    /\ nextEventId' = nextEventId + 1
    /\ cre' = [cre EXCEPT ![c] = CreFrame("expand", @.event, nextEventId, <<>>, {})]
    /\ UNCHANGED <<rsvps, nextRsvpId, last, gen, del, seen, rsv>>

\* lines 337-356: the expansion of the request's own dict
CrExpand(c) ==
    /\ cre[c].pc = "expand"
    /\ LET r == generate_recurring_events(BaseEventDict(lastrowid(c), cre[c].event))
       IN  IF ~TruthyBool(cre[c].event.is_recurring)
           THEN /\ cre' = [cre EXCEPT ![c].pc = "done"]
                /\ last' = Response("create_event", 200, "")
           ELSE IF r.raised
           THEN /\ cre' = [cre EXCEPT ![c].pc = "done"]
                /\ last' = Response("create_event", 500, "Failed to create event")
           ELSE /\ cre' = [cre EXCEPT ![c].pc = "children",
                                      ![c].recurring_events = r.events]
                /\ UNCHANGED last
    /\ UNCHANGED <<events, rsvps, nextEventId, nextRsvpId, gen, del, seen,
                 rsv>>

\* lines 358-369: the INSERT of one occurrence; the first one opens the
\* transaction and waits for the write lock
CrChild(c) ==
    /\ cre[c].pc = "children"
    /\ cre[c].recurring_events # <<>>
    /\ LockFree(c)
    /\ cre' = [cre EXCEPT
                ![c].tx = @ \cup {ChildRow(nextEventId, Head(cre[c].recurring_events))},
                ![c].recurring_events = Tail(@)]
    /\ nextEventId' = nextEventId + 1
    /\ UNCHANGED <<events, rsvps, nextRsvpId, last, gen, del, seen, rsv>>

\* line 371: commit of the occurrences, then the answer
CrCommit(c) ==
    /\ cre[c].pc = "children"
    /\ cre[c].recurring_events = <<>>
    /\ events' = events \cup cre[c].tx
    /\ cre' = [cre EXCEPT ![c].pc = "done", ![c].tx = {}]
    /\ last' = Response("create_event", 200, "")
    /\ UNCHANGED <<rsvps, nextEventId, nextRsvpId, gen, del, seen, rsv>>

NextCreate ==
    \/ \E c \in Connections, event \in CreateBodies : CrBegin(c, event)
    \/ \E c \in Connections : CrParent(c)
    \/ \E c \in Connections : CrExpand(c)
    \/ \E c \in Connections : CrChild(c)
    \/ \E c \in Connections : CrCommit(c)

SpecCreate == Init /\ [][NextCreate]_vars

----------------------------------------------------------------------------
(* create_event statement by statement, with failures and a reader *)

\* a yearly event whose horizon of two years lies past MAXYEAR: line 251
\* raises before any occurrence is computed
FailingBody ==
    EventCreate(Date(9998, 6, 1), Some(TRUE), Some("yearly"), Some(1), None, None)

\* lines 107-110, 405-407: the INSERT of an occurrence raises, the handler
\* answers 500 and get_db closes the connection without commit: the
\* occurrences inserted so far are rolled back, their ids with them; the
\* parent was committed at line 334
CrFail(c) ==
    /\ cre[c].pc = "children"
    /\ cre[c].recurring_events # <<>>
    /\ cre' = [cre EXCEPT ![c].pc = "done", ![c].tx = {}]
    /\ nextEventId' = nextEventId - Cardinality(cre[c].tx)
    /\ last' = Response("create_event", 500, "Failed to create event")
    /\ UNCHANGED <<events, rsvps, nextRsvpId, gen, del, seen, rsv>>

NextCreateRead ==
    \/ \E c \in Connections, event \in CreateBodies \cup {FailingBody} :
            CrBegin(c, event)
    \/ \E c \in Connections : CrParent(c)
    \/ \E c \in Connections : CrExpand(c)
    \/ \E c \in Connections : CrChild(c)
    \/ \E c \in Connections : CrCommit(c)
    \/ \E c \in Connections : CrFail(c)
    \/ Read

SpecCreateRead == Init /\ [][NextCreateRead]_vars

----------------------------------------------------------------------------
(* create_rsvp and update_rsvp statement by statement on two connections *)

\* an event with room for one attendee
CappedEvent ==
    EventCreate(Date(2024, 7, 15), Some(FALSE), None, Some(1), None, Some(1))

\* the frame of a request: the handler, where it stands, the path and the
\* body of the request
RsvFrame(op, pc, event_id, rsvp_id, body) ==
    [op |-> op, pc |-> pc, event_id |-> event_id, rsvp_id |-> rsvp_id,
     body |-> body]

\* lines 663-681: the SELECTs of create_rsvp; they read the committed rows
\* and take no lock
RsvCreateChecks(c, event_id, rsvp) ==
    /\ rsv[c].pc = "idle"
    /\ nextRsvpId <= MaxRsvpId
    /\ IF event_id \notin EventIds(events)
       THEN /\ last' = Response("create_rsvp", 404, "Event not found")
            /\ UNCHANGED rsv
       ELSE IF CreateAtCapacity(events, rsvps, event_id, rsvp)
       THEN /\ last' = Response("create_rsvp", 400, "Event is at maximum capacity")
            /\ UNCHANGED rsv
       ELSE IF EmailExists(rsvps, event_id, rsvp)
       THEN /\ last' = Response("create_rsvp", 400, "RSVP already exists for this email")
            /\ UNCHANGED rsv
       ELSE /\ rsv' = [rsv EXCEPT ![c] =
                            RsvFrame("create_rsvp", "checked", event_id, 0, rsvp)]
            /\ UNCHANGED last
    /\ UNCHANGED <<events, rsvps, nextEventId, nextRsvpId, gen, del, seen, cre>>

\* lines 683-689: the INSERT and its commit; the statement waits for the
\* write lock, which the connection holds until the commit
RsvInsert(c) ==
    /\ rsv[c].pc = "checked"
    /\ rsv[c].op = "create_rsvp"
    /\ IF UniqueViolated(rsvps, rsv[c].event_id, rsv[c].body)
       THEN /\ last' = Response("create_rsvp", 500, "Failed to create RSVP")
            /\ UNCHANGED <<rsvps, nextRsvpId>>
       ELSE /\ rsvps' = rsvps \cup {RsvpRow(nextRsvpId, rsv[c].event_id, rsv[c].body)}
            /\ nextRsvpId' = nextRsvpId + 1
            /\ last' = Response("create_rsvp", 200, "")
    /\ rsv' = [rsv EXCEPT ![c] = [pc |-> "idle"]]
    /\ UNCHANGED <<events, nextEventId, gen, del, seen, cre>>

\* lines 765-793: the SELECTs of update_rsvp and the test of the body
RsvUpdateChecks(c, event_id, rsvp_id, rsvp_update) ==
    /\ rsv[c].pc = "idle"
    /\ IF ~RsvpExists(rsvps, event_id, rsvp_id)
       THEN /\ last' = Response("update_rsvp", 404, "RSVP not found")
            /\ UNCHANGED rsv
       ELSE IF /\ ChangesToGoing(RsvpById(rsvps, rsvp_id), rsvp_update)
               /\ event_id \notin EventIds(events)
       THEN /\ last' = Response("update_rsvp", 500, "Failed to update RSVP")
            /\ UNCHANGED rsv
       ELSE IF /\ ChangesToGoing(RsvpById(rsvps, rsvp_id), rsvp_update)
               /\ UpdateAtCapacity(events, rsvps, event_id)
       THEN /\ last' = Response("update_rsvp", 400, "Event is at maximum capacity")
            /\ UNCHANGED rsv
       ELSE IF rsvp_update.status = None /\ rsvp_update.notes = None
       THEN /\ last' = Response("update_rsvp", 400, "No fields to update")
            /\ UNCHANGED rsv
       ELSE /\ rsv' = [rsv EXCEPT ![c] =
                            RsvFrame("update_rsvp", "checked", event_id, rsvp_id,
                                     rsvp_update)]
            /\ UNCHANGED last
    /\ UNCHANGED <<events, rsvps, nextEventId, nextRsvpId, gen, del, seen, cre>>

\* lines 798-800: UPDATE ... WHERE id = ? AND event_id = ? and its commit,
\* applied to the row as it is stored now
RsvUpdate(c) ==
    /\ rsv[c].pc = "checked"
    /\ rsv[c].op = "update_rsvp"
    /\ rsvps' = {IF r.id = rsv[c].rsvp_id /\ r.event_id = rsv[c].event_id
                 THEN UpdatedRsvp(r, rsv[c].body) ELSE r : r \in rsvps}
    /\ last' = Response("update_rsvp", 200, "")
    /\ rsv' = [rsv EXCEPT ![c] = [pc |-> "idle"]]
    /\ UNCHANGED <<events, nextEventId, nextRsvpId, gen, del, seen, cre>>

NextRsvpSteps ==
    \/ create_event(CappedEvent)
    \/ \E c \in Connections, id \in EventIdArgs, rsvp \in RSVPCreates :
            RsvCreateChecks(c, id, rsvp)
    \/ \E c \in Connections : RsvInsert(c)
    \/ \E c \in Connections, id \in EventIdArgs, rid \in RsvpIdArgs :
            RsvUpdateChecks(c, id, rid, RSVPUpdate(Some("going"), None))
    \/ \E c \in Connections : RsvUpdate(c)

SpecRsvpSteps == Init /\ [][NextRsvpSteps]_vars

----------------------------------------------------------------------------
(* Properties of the export, checked under SpecExport *)

\* the most recent request was an export that produced a document
Exported == last.op = "export_calendar" /\ last.code = 200

\* the blocks of a document: the runs of lines from BEGIN:VEVENT to END:VEVENT
RECURSIVE BlocksOf(_)
BlocksOf(lines) ==
    IF lines = <<>> THEN <<>>
    ELSE IF Head(lines) = <<"BEGIN:VEVENT">>
    THEN LET n == CHOOSE k \in 1..Len(lines) :
                    /\ lines[k] = <<"END:VEVENT">>
                    /\ \A j \in 1..(k - 1) : lines[j] # <<"END:VEVENT">>
         IN  <<SubSeq(lines, 1, n)>> \o BlocksOf(SubSeq(lines, n + 1, Len(lines)))
    ELSE BlocksOf(Tail(lines))

ExportedBlocks == BlocksOf(last.content)

\* n in decimal, zero-padded to w digits
Digits == <<"0", "1", "2", "3", "4", "5", "6", "7", "8", "9">>
Pad(n, w) == [i \in 1..w |-> Digits[((n \div (10 ^ (w - i))) % 10) + 1]]
Decimal(n) == Pad(n, CHOOSE w \in 1..6 : n < 10 ^ w /\ (w > 1 => n >= 10 ^ (w - 1)))

\* the stored row a block was written for, found by its UID line
BlockRow(block) ==
    CHOOSE e \in events :
        block[2] = <<"UID:">> \o Decimal(e.id) \o <<"@communitycalendar">>

\* the lines of a block that start with the given name
LinesNamed(block, name) == {i \in 1..Len(block) : block[i][1] = name}

\* a date as YYYYMMDDT000000Z
MidnightStamp(iso) ==
    Pad(iso[1], 4) \o Pad(iso[2], 2) \o Pad(iso[3], 2)
    \o <<"T", "0", "0", "0", "0", "0", "0", "Z">>

Uppercased ==
    [daily |-> "DAILY", weekly |-> "WEEKLY", monthly |-> "MONTHLY", yearly |-> "YEARLY"]

\* the RRULE text the rule fields of a row call for
ExpectedRRule(row) ==
    <<"RRULE:", "FREQ=", Uppercased[Val(row.recurrence_type)], ";INTERVAL=">>
    \o Decimal(IF row.recurrence_interval = None THEN 1 ELSE Val(row.recurrence_interval))
    \o (IF row.recurrence_end_date = None THEN <<>>
        ELSE <<";UNTIL=">> \o MidnightStamp(Val(row.recurrence_end_date)))

\* C11: a block of the export has an RRULE line if and only if its row has
\* is_recurring true and a non-null recurrence type, and the line reads
\* FREQ=<uppercased type>;INTERVAL=<interval, or 1 when null>, followed by
\* ;UNTIL=<end date as YYYYMMDDT000000Z> exactly when the row has an end date.
C11_RRuleLine ==
    Exported =>
        \A k \in 1..Len(ExportedBlocks) :
            LET block == ExportedBlocks[k]
                row == BlockRow(block)
            IN  /\ LinesNamed(block, "RRULE:") # {}
                    <=> (row.is_recurring = Some(1) /\ row.recurrence_type # None)
                /\ \A i \in LinesNamed(block, "RRULE:") : block[i] = ExpectedRRule(row)

\* the names of the lines of a block, in order
LineNames(block) == [i \in 1..Len(block) |-> block[i][1]]

\* the store holds one event, and it is not recurring
SingleNonRecurring == Cardinality(events) = 1 /\ \A e \in events : e.is_recurring # Some(1)

NoLocation(row) ==
    row.location_name = None /\ row.location_address = None
    /\ row.online_meeting_url = None

\* the event starts at 23:00 or later on the last representable day
InLastHour(row) ==
    /\ row.date = <<MAXYEAR, 12, 31>>
    /\ row.time # None
    /\ SubSeq(Val(row.time), 1, 2) = <<"2", "3">>

\* C12 as stated: the export of a single non-recurring event with no location
\* and no description has one block with exactly the UID, DTSTAMP, DTSTART,
\* DTEND and SUMMARY lines.
C12_ExactlyFiveLines ==
    (/\ Exported
     /\ SingleNonRecurring
     /\ \A e \in events : NoLocation(e) /\ e.description = None)
    => /\ Len(ExportedBlocks) = 1
       /\ LineNames(ExportedBlocks[1])
            = <<"BEGIN:VEVENT", "UID:", "DTSTAMP:", "DTSTART:", "DTEND:",
                "SUMMARY:", "END:VEVENT">>

\* C12: serializing a single non-recurring event that has no location, no
\* description and no organizer produces one block with exactly the UID,
\* DTSTAMP, DTSTART, DTEND and SUMMARY lines and no ORGANIZER, LOCATION,
\* DESCRIPTION or RRULE line; for an event that starts in the last hour of
\* 9999-12-31 the export fails instead.
C12_ExactlyFiveLinesNoOrganizer ==
    (/\ last.op = "export_calendar"
     /\ SingleNonRecurring
     /\ \A e \in events :
            NoLocation(e) /\ e.description = None /\ e.organizer = None)
    => IF \E e \in events : InLastHour(e)
       THEN last.code = 500
       ELSE /\ last.code = 200
            /\ Len(ExportedBlocks) = 1
            /\ LineNames(ExportedBlocks[1])
                 = <<"BEGIN:VEVENT", "UID:", "DTSTAMP:", "DTSTART:", "DTEND:",
                     "SUMMARY:", "END:VEVENT">>

\* the export of a store that holds only the plain event
C12_Witness ==
    /\ Exported
    /\ events = {ParentRow(1, PlainEvent)}
    /\ Len(last.content) = 11

\* the value of a decimal digit, and the minute of the day of an H:MM or
\* HH:MM text; an event without a time counts as the start of its day
DigitValue(c) == CHOOSE v \in 0..9 : Digits[v + 1] = c
NumberOf(text) ==
    IF Len(text) = 1 THEN DigitValue(text[1])
    ELSE 10 * DigitValue(text[1]) + DigitValue(text[2])
MinuteOfDay(time) ==
    IF time = None THEN 0 - 1
    ELSE LET t == Val(time)
         IN  60 * NumberOf(SubSeq(t, 1, Len(t) - 3))
               + NumberOf(SubSeq(t, Len(t) - 1, Len(t)))

\* row a is not later than row b by date, then by time of day
NotLater(a, b) ==
    \/ SeqLess(a.date, b.date)
    \/ a.date = b.date /\ MinuteOfDay(a.time) <= MinuteOfDay(b.time)

\* one block per stored event
OneBlockPerEvent ==
    /\ Len(ExportedBlocks) = Cardinality(events)
    /\ \A e \in events : \E k \in 1..Len(ExportedBlocks) : BlockRow(ExportedBlocks[k]) = e

\* the blocks follow each other in ascending (date, time) order
BlocksAscending ==
    \A k \in 1..(Len(ExportedBlocks) - 1) :
        NotLater(BlockRow(ExportedBlocks[k]), BlockRow(ExportedBlocks[k + 1]))

\* a recurring parent's block has an RRULE line, its children's blocks none
ParentDeclaresChildrenFlat ==
    \A k \in 1..Len(ExportedBlocks) :
        LET row == BlockRow(ExportedBlocks[k])
            rrule == LinesNamed(ExportedBlocks[k], "RRULE:") # {}
        IN  /\ row.parent_event_id # None => ~rrule
            /\ (\E c \in events : c.parent_event_id = Some(row.id)) => rrule

\* C13: the export has exactly one block per stored event, parents and
\* children alike, in ascending (date, time) order; the blocks of the children
\* of a recurring event have no RRULE line and the block of their parent has one.
C13_OneBlockEachInOrder ==
    Exported => OneBlockPerEvent /\ BlocksAscending /\ ParentDeclaresChildrenFlat

\* a field that holds a non-empty text
Present(x) == x # None /\ Val(x) # ""

\* the parts the location fields of a row call for, by location type
NameAndAddress(row) ==
    (IF Present(row.location_name) THEN << <<Val(row.location_name)>> >> ELSE <<>>)
    \o (IF Present(row.location_address)
        THEN << <<Val(row.location_address)>> >> ELSE <<>>)

ExpectedParts(row) ==
    CASE row.location_type = "online" ->
            IF Present(row.online_meeting_url)
            THEN << <<"Online: ", Val(row.online_meeting_url)>> >> ELSE <<>>
      [] row.location_type = "in_person" -> NameAndAddress(row)
      [] row.location_type = "hybrid" ->
            NameAndAddress(row)
            \o (IF Present(row.online_meeting_url)
                THEN << <<"Online option: ", Val(row.online_meeting_url)>> >>
                ELSE <<>>)

\* the parts separated by a comma and a space
RECURSIVE CommaSeparated(_)
CommaSeparated(parts) ==
    IF Len(parts) = 1 THEN parts[1]
    ELSE parts[1] \o <<", ">> \o CommaSeparated(Tail(parts))

\* C18: the LOCATION line of a block is built from its row's own fields: for
\* online only the meeting URL after "Online: "; for in_person the name and/or
\* the address; for hybrid the name and/or the address and the URL after
\* "Online option: "; the parts are joined with ", ", and the line is left out
\* exactly when there is no part.
C18_LocationLine ==
    Exported =>
        \A k \in 1..Len(ExportedBlocks) :
            LET block == ExportedBlocks[k]
                parts == ExpectedParts(BlockRow(block))
                at == LinesNamed(block, "LOCATION:")
            IN  /\ at = {} <=> parts = <<>>
                /\ Cardinality(at) <= 1
                /\ \A i \in at : block[i] = <<"LOCATION:">> \o CommaSeparated(parts)

\* an exported hybrid event with a name, an address and a meeting URL
C18_Witness ==
    /\ Exported
    /\ \E k \in 1..Len(ExportedBlocks) :
        /\ BlockRow(ExportedBlocks[k]).location_type = "hybrid"
        /\ \E i \in 1..Len(ExportedBlocks[k]) :
              ExportedBlocks[k][i]
                = <<"LOCATION:", "Central Park", ", ", "123 Park Avenue", ", ",
                    "Online option: ", "https://meet.example/1">>

----------------------------------------------------------------------------
(* Properties of get_rsvp_counts, checked under SpecCounts *)

----------------------------------------------------------------------------
(* Properties of the RSVP handlers, checked under SpecRsvp *)

\* no two RSVPs of one event carry the same non-null email
EmailsUnique ==
    \A r1, r2 \in rsvps :
        (/\ r1.event_id = r2.event_id
         /\ r1.attendee_email # None
         /\ r1.attendee_email = r2.attendee_email) => r1 = r2

EmailUsed(event_id, email) ==
    email # None /\ \E r \in rsvps : r.event_id = event_id /\ r.attendee_email = email

\* C15: in every reachable state no two RSVPs of the same event carry the same
\* non-null attendee email; create_rsvp with an email already used for that
\* event is rejected and leaves the store unchanged, and an RSVP without an
\* email is never rejected as a duplicate.
C15_UniqueEmail ==
    /\ []EmailsUnique
    /\ [][\A id \in EventIdArgs, rsvp \in RsvpEmailCreates :
            (last'.op = "create_rsvp" /\ create_rsvp(id, rsvp)) =>
                /\ EmailUsed(id, rsvp.attendee_email) =>
                        last'.code # 200 /\ rsvps' = rsvps /\ events' = events
                /\ rsvp.attendee_email = None =>
                        last'.detail \notin {"RSVP already exists for this email",
                                             "Failed to create RSVP"}]_vars

\* a second RSVP with the address of a stored one was turned down
C15_Witness ==
    /\ last = Response("create_rsvp", 400, "RSVP already exists for this email")
    /\ \E r \in rsvps : r.attendee_email = Some("john@example.com")
    /\ Cardinality(rsvps) = 1

----------------------------------------------------------------------------
(* Properties of update_event, checked under SpecUpdate *)

\* the column a field of the patch is written to
ColumnOf ==
    [title |-> "title", description |-> "description", event_date |-> "date",
     event_time |-> "time", organizer |-> "organizer",
     is_recurring |-> "is_recurring", recurrence_type |-> "recurrence_type",
     recurrence_interval |-> "recurrence_interval",
     recurrence_end_date |-> "recurrence_end_date",
     location_type |-> "location_type", location_name |-> "location_name",
     location_address |-> "location_address",
     online_meeting_url |-> "online_meeting_url",
     max_attendees |-> "max_attendees"]

\* what a column holds once a present patch value v was stored in it
StoredAs(column, v) ==
    CASE column \in {"title", "location_type"} -> v
      [] column = "date" -> <<v.year, v.month, v.day>>
      [] column = "recurrence_end_date" -> Some(<<v.year, v.month, v.day>>)
      [] column = "is_recurring" -> Some(IF v THEN 1 ELSE 0)
      [] OTHER -> Some(v)

AllAbsent(u) == \A field \in DOMAIN u : u[field] = None

\* the row follows the patch: a column of a present field holds its value,
\* every other column but updated_at is as before
Patched(old, new, u) ==
    /\ DOMAIN new = DOMAIN old
    /\ \A field \in DOMAIN u :
          new[ColumnOf[field]] = IF u[field] # None
                                 THEN StoredAs(ColumnOf[field], Val(u[field]))
                                 ELSE old[ColumnOf[field]]
    /\ \A column \in DOMAIN old \ ({ColumnOf[field] : field \in DOMAIN u}
                                      \cup {"updated_at"}) :
          new[column] = old[column]

\* C17: update_event changes exactly the fields of the targeted event whose
\* patch value is present (and updated_at); every other field of that event,
\* every other event, its children included, and every RSVP stay as they are,
\* no occurrence is created or removed, and a patch with all fields absent is
\* rejected with a 400 and changes nothing.
C17_PatchOnlyPresentFields ==
    [][\A id \in EventIdArgs, u \in UpdatePatches :
        (last'.op = "update_event" /\ update_event(id, u)) =>
            /\ rsvps' = rsvps
            /\ EventIds(events') = EventIds(events)
            /\ \A e \in events : e.id # id => e \in events'
            /\ id \in EventIds(events) =>
                 IF AllAbsent(u)
                 THEN events' = events /\ last'.code = 400
                 ELSE /\ last'.code = 200
                      /\ Patched(EventById(events, id), EventById(events', id), u)]_vars

\* a parent was patched with a false is_recurring while its child and an
\* RSVP were in the store
C17_Witness ==
    /\ last = Response("update_event", 200, "")
    /\ \E p, c \in events :
          /\ c.parent_event_id = Some(p.id)
          /\ p.is_recurring = Some(0)
          /\ p.recurrence_type = Some("weekly")
          /\ p.updated_at = AtUpdate
          /\ c.updated_at = AtInsert
    /\ rsvps # {}

----------------------------------------------------------------------------
(* Properties of concurrent create_event requests, checked under SpecCreate *)

BothDone == \A c \in Connections : cre[c].pc = "done"

\* the rows of a request: its parent and the rows that name it as parent
Family(evs, event_id) ==
    {r \in evs : r.id = event_id \/ r.parent_event_id = Some(event_id)}

\* rows without their ids: the parent, and each child marked as a child
WithoutIds(family) ==
    {[r EXCEPT !.id = 0,
               !.parent_event_id = IF @ = None THEN None ELSE Some(0)] : r \in family}

\* what the request creates when it runs alone on an empty store
Alone(event) ==
    {ParentRow(1, event)}
      \cup ChildRows(2, generate_recurring_events(BaseEventDict(1, event)).events)

\* C16: however two create_event requests for recurring events interleave,
\* the outcome is that of running them one after the other: each parent ends
\* with exactly the children of its own expansion, and every child names its
\* own parent.
C16_IndependentCreates ==
    BothDone =>
        /\ Cardinality(EventIds(events)) = Cardinality(events)
        /\ events = UNION {Family(events, cre[c].event_id) : c \in Connections}
        /\ \A c \in Connections :
              /\ Cardinality(Family(events, cre[c].event_id))
                    = Cardinality(Alone(cre[c].event))
              /\ WithoutIds(Family(events, cre[c].event_id))
                    = WithoutIds(Alone(cre[c].event))

\* both requests inserted their parent before either inserted a child
C16_Witness ==
    /\ BothDone
    /\ {cre[c].event_id : c \in Connections} = {1, 2}
    /\ cre["A"].event # cre["B"].event
    /\ Cardinality(events) = 6

----------------------------------------------------------------------------
(* Properties of generate_recurring_events, checked under SpecGen *)

GenStarted == gen.pc \in {"loop", "returned", "raised"}

OccurrenceDate(i) == gen.events[i].event_date

\* the start date plus two calendar years
TwoYearsLater(d) ==
    Date(d.year + 2, d.month,
         IF d.month = 2 /\ d.day = 29 /\ ~is_leap(d.year + 2) THEN 28 ELSE d.day)

Horizon(base_event) ==
    IF base_event.recurrence_end_date # None
    THEN Val(base_event.recurrence_end_date)
    ELSE TwoYearsLater(base_event.event_date)

\* C3: every produced date is strictly after the start date and not after
\* maxDate (the rule's end date, else the start date plus 2 calendar years),
\* and the produced dates are strictly increasing.
C3_DatesWithinHorizon ==
    GenStarted =>
        \A i \in 1..Len(gen.events) :
            /\ DateLt(gen.base_event.event_date, OccurrenceDate(i))
            /\ DateLe(OccurrenceDate(i), Horizon(gen.base_event))
            /\ i > 1 => DateLt(OccurrenceDate(i - 1), OccurrenceDate(i))

\* a rule without end date whose last occurrence falls on the horizon itself
C3_Witness ==
    /\ gen.pc = "returned"
    /\ gen.base_event.recurrence_end_date = None
    /\ Len(gen.events) >= 2
    /\ OccurrenceDate(Len(gen.events)) = TwoYearsLater(gen.base_event.event_date)
    /\ gen.base_event.event_date.day = 29

\* C4: never more than 1000 occurrences, whatever the rule.
C4_AtMost1000 ==
    GenStarted => Len(gen.events) <= 1000

\* the loop stopped by the limit with the horizon still ahead
C4_Witness ==
    /\ gen.pc = "returned"
    /\ Len(gen.events) = 999
    /\ gen.iteration_count = 1000
    /\ DateLe(gen.current_date, gen.max_date)

\* the call is over: it returned its list or raised
GenDone == gen.pc \in {"returned", "raised"}

\* the running date has passed maxDate, or 1000 steps were taken
LoopOver ==
    \/ DateLt(gen.max_date, gen.current_date)
    \/ gen.iteration_count >= 1000

\* C19: generate_recurring_events terminates for every rule; its loop never
\* takes more than 1000 steps and is left exactly when the running date
\* exceeds maxDate or 1000 steps were taken, even when a step does not advance
\* the running date.
C19_Terminates ==
    /\ <>GenDone
    /\ [](gen.pc = "loop" => gen.iteration_count <= 1000)
    /\ [][gen.pc = "loop" => (gen'.pc = "returned" <=> LoopOver)]_vars

\* a rule whose steps leave the running date alone, stopped by the limit
C19_Witness ==
    /\ gen.pc = "returned"
    /\ "iteration_count" \in DOMAIN gen
    /\ gen.iteration_count = 1000
    /\ gen.current_date = gen.base_event.event_date
    /\ gen.events = <<>>

\* a well-formed rule: the frequency in the enum (or unset), the interval
\* between 1 and 365, the dates representable
WellFormed(base_event) ==
    /\ base_event.recurrence_type
          \in {None, Some("daily"), Some("weekly"), Some("monthly"), Some("yearly")}
    /\ base_event.recurrence_interval # None
    /\ Val(base_event.recurrence_interval) \in 1..365
    /\ base_event.event_date.year \in 1..MAXYEAR
    /\ base_event.recurrence_end_date # None =>
          Val(base_event.recurrence_end_date).year \in 1..MAXYEAR

\* C20: for every well-formed event generate_recurring_events completes with
\* a result and never raises an error.
C20_NeverRaises ==
    WellFormed(gen.base_event) => gen.pc # "raised"

\* C5: the empty list, and no exception, whenever is_recurring is false (or
\* unset) or the recurrence type is unset.
C5_EmptyWhenNotRecurring ==
    (/\ GenStarted
     /\ \/ gen.base_event.is_recurring \in {None, Some(FALSE)}
        \/ gen.base_event.recurrence_type = None)
    => (gen.pc = "returned" /\ gen.events = <<>>)

\* the degenerate rule: is_recurring true and no recurrence type
C5_Witness ==
    /\ gen.pc = "returned"
    /\ gen.base_event.is_recurring = Some(TRUE)
    /\ gen.base_event.recurrence_type = None
    /\ gen.events = <<>>

MonthIndex(d) == d.year * 12 + d.month

\* the months added by one step of a monthly or yearly rule
StepMonths(base_event) ==
    IF base_event.recurrence_type = Some("monthly")
    THEN Val(base_event.recurrence_interval)
    ELSE 12 * Val(base_event.recurrence_interval)

\* C6: monthly and yearly steps add interval calendar months or years to the
\* running date and clamp the day to the last day of the target month; each
\* occurrence is computed from the previous, already clamped, date; monthly
\* from 2024-01-31 gives 2024-02-29 first, then 2024-03-29.
C6_StickyClamp ==
    /\ (/\ GenStarted
        /\ gen.base_event.is_recurring = Some(TRUE)
        /\ gen.base_event.recurrence_type \in {Some("monthly"), Some("yearly")}
        /\ gen.base_event.recurrence_interval # None)
       => \A i \in 1..Len(gen.events) :
            LET prev == IF i = 1 THEN gen.base_event.event_date
                        ELSE OccurrenceDate(i - 1)
                cur == OccurrenceDate(i)
                dim == days_in_month(cur.year, cur.month)
            IN  /\ MonthIndex(cur) = MonthIndex(prev) + StepMonths(gen.base_event)
                /\ cur.day = IF prev.day < dim THEN prev.day ELSE dim
    /\ (/\ gen.pc \in {"returned", "raised"}
        /\ gen.base_event.is_recurring = Some(TRUE)
        /\ gen.base_event.recurrence_type = Some("monthly")
        /\ gen.base_event.recurrence_interval = Some(1)
        /\ gen.base_event.event_date = Date(2024, 1, 31))
       => /\ gen.pc = "returned"
          /\ Len(gen.events) >= 2
          /\ OccurrenceDate(1) = Date(2024, 2, 29)
          /\ OccurrenceDate(2) = Date(2024, 3, 29)

\* the expansion from 2024-01-31 has returned its drifting dates
C6_Witness ==
    /\ gen.pc = "returned"
    /\ gen.base_event.recurrence_type = Some("monthly")
    /\ gen.base_event.event_date = Date(2024, 1, 31)
    /\ Len(gen.events) >= 3
    /\ OccurrenceDate(3) = Date(2024, 4, 29)

----------------------------------------------------------------------------
(* Properties of the handlers, checked under Spec *)

GoingCount(rs, event_id) ==
    Cardinality({r \in rs : r.event_id = event_id /\ r.status = "going"})

\* C1: after delete_event succeeds on a parent event, no event has the deleted
\* id as parent_event_id and no RSVP belongs to the deleted parent or to any
\* of its deleted children.
C1_DeleteCascades ==
    [][\A id \in EventIdArgs :
        (/\ last' = Response("delete_event", 200, "")
         /\ delete_event(id)
         /\ \E p \in events : p.id = id /\ p.parent_event_id = None)
        => /\ \A e \in events' : e.parent_event_id # Some(id)
           /\ \A r \in rsvps' : r.event_id \notin (EventIds(events) \ EventIds(events'))
      ]_vars

\* C2: every event with parent_event_id set keeps the id of the parent whose
\* creation materialized it, and never has is_recurring true or a recurrence
\* rule of its own.
C2_ChildrenNeverRecur ==
    [][\A e \in events' :
        e.parent_event_id # None =>
            /\ e.is_recurring \in {None, Some(0)}
            /\ e.recurrence_type = None
            /\ e.recurrence_end_date = None
            /\ IF e.id \in EventIds(events)
               THEN e.parent_event_id = EventById(events, e.id).parent_event_id
               ELSE e.parent_event_id = Some(nextEventId)
      ]_vars

\* C7: after create_event succeeds for a recurring event, the new rows are the
\* parent and exactly one child per date of generate_recurring_events; each
\* child copies title, description, time, organizer, location fields and
\* max_attendees, carries the occurrence date, and has is_recurring false and
\* recurrence type, interval and end date null.
C7_ChildrenMaterialized ==
    [][\A e \in EventCreates :
        (/\ last' = Response("create_event", 200, "")
         /\ e.is_recurring = Some(TRUE)
         /\ create_event(e))
        => LET dates == generate_recurring_events(BaseEventDict(nextEventId, e)).events
               new == events' \ events
               children == {c \in new : c.id # nextEventId}
           IN  /\ events \subseteq events'
               /\ rsvps' = rsvps
               /\ \E p \in new : p.id = nextEventId /\ p.parent_event_id = None
               /\ Cardinality(new) = 1 + Len(dates)
               /\ \A i \in 1..Len(dates) :
                    \E c \in children :
                        c.date = <<dates[i].event_date.year,
                                   dates[i].event_date.month,
                                   dates[i].event_date.day>>
               /\ \A c \in children :
                    /\ \E i \in 1..Len(dates) :
                        c.date = <<dates[i].event_date.year,
                                   dates[i].event_date.month,
                                   dates[i].event_date.day>>
                    /\ c.parent_event_id = Some(nextEventId)
                    /\ c.title = e.title
                    /\ c.description = e.description
                    /\ c.time = e.event_time
                    /\ c.organizer = e.organizer
                    /\ c.location_type = e.location_type
                    /\ c.location_name = e.location_name
                    /\ c.location_address = e.location_address
                    /\ c.online_meeting_url = e.online_meeting_url
                    /\ c.max_attendees = e.max_attendees
                    /\ c.is_recurring = Some(0)
                    /\ c.recurrence_type = None
                    /\ c.recurrence_interval = None
                    /\ c.recurrence_end_date = None
      ]_vars

\* a recurring event was created next to an older one and its child is stored
C7_Witness ==
    /\ last = Response("create_event", 200, "")
    /\ \E p \in events, c \in events, o \in events :
        /\ c.parent_event_id = Some(p.id)
        /\ c.id = nextEventId - 1
        /\ c.date = <<2024, 1, 8>>
        /\ o.id < p.id

CapacityExceeded(op) == Response(op, 400, "Event is at maximum capacity")

\* C8: create_rsvp with status going, and update_rsvp moving a non-going RSVP
\* to going, are rejected with the capacity error whenever the event has a cap
\* and accepting would take its going count past the cap; the rejected
\* request leaves the RSVP records unchanged.
C8_CapacityRejects ==
    [][/\ \A id \in EventIdArgs, rsvp \in RSVPCreates :
            (/\ last'.op = "create_rsvp"
             /\ rsvp.status = "going"
             /\ create_rsvp(id, rsvp)
             /\ \E e \in events :
                    /\ e.id = id
                    /\ e.max_attendees # None
                    /\ GoingCount(rsvps, id) + 1 > Val(e.max_attendees))
            => (last' = CapacityExceeded("create_rsvp") /\ rsvps' = rsvps)
       /\ \A id \in EventIdArgs, rid \in RsvpIdArgs, u \in RSVPUpdates :
            (/\ last'.op = "update_rsvp"
             /\ u.status = Some("going")
             /\ update_rsvp(id, rid, u)
             /\ \E r \in rsvps : r.id = rid /\ r.event_id = id /\ r.status # "going"
             /\ \E e \in events :
                    /\ e.id = id
                    /\ e.max_attendees # None
                    /\ GoingCount(rsvps, id) + 1 > Val(e.max_attendees))
            => (last' = CapacityExceeded("update_rsvp") /\ rsvps' = rsvps)
      ]_vars

\* a going request was turned away from an event that is full
C8_Witness ==
    /\ last = CapacityExceeded("create_rsvp")
    /\ \E e \in events :
        /\ e.max_attendees # None
        /\ GoingCount(rsvps, e.id) >= Val(e.max_attendees)

\* C10: exporting an empty store fails with the not-found error and yields no
\* document; exporting a store with at least one event never gives that error.
C10_EmptyExport ==
    last.op = "export_calendar" =>
        /\ events = {} =>
            /\ last.code = 404
            /\ last.detail = "No events found to export"
            /\ last.content = NoDocument
        /\ events # {} => last.code # 404

\* the export of a store that was emptied again by delete_event
C10_Witness ==
    /\ last.op = "export_calendar"
    /\ last.code = 404
    /\ events = {}
    /\ nextEventId > 1

----------------------------------------------------------------------------
(* Properties of delete_event among other connections, under SpecDelete *)

\* the observation lacks rows the request has removed while it still holds
\* others of them, or rows the request has yet to remove
PartlyDeleted(obs) ==
    /\ \/ del.deleted_events \ obs.events # {}
       \/ del.deleted_rsvps \ obs.rsvps # {}
    /\ \/ del.deleted_events \cap obs.events # {}
       \/ del.deleted_rsvps \cap obs.rsvps # {}
       \/ \E e \in obs.events :
            e.id = del.event_id \/ e.parent_event_id = Some(del.event_id)

\* C9: the event, its children and the RSVPs that delete_event removes go as
\* one unit: what a reader on another connection observes never lacks some
\* of these rows while it still holds others.
C9_AtomicDelete ==
    [][Read => ~PartlyDeleted(seen')]_vars

\* a reader looked at the store while the request held both deletions
\* uncommitted: an RSVP, the parent and a child
C9_Witness ==
    /\ del.pc = "events_deleted"
    /\ del.tx # NoTx
    /\ del.deleted_rsvps # {}
    /\ Cardinality(del.deleted_events) >= 2
    /\ seen = [events |-> events, rsvps |-> rsvps]
    /\ del.deleted_events \subseteq seen.events
    /\ del.deleted_rsvps \subseteq seen.rsvps

----------------------------------------------------------------------------
(* Properties of the capacity of an event, checked under SpecCapacity *)

\* C21: in every state reachable by create_event, update_event, create_rsvp,
\* update_rsvp and delete_rsvp, each event with max_attendees set has at most
\* max_attendees RSVPs with status going.
C21_GoingWithinCap ==
    \A e \in events :
        e.max_attendees # None => GoingCount(rsvps, e.id) <= Val(e.max_attendees)

----------------------------------------------------------------------------
(* Properties of create_event among readers and failures, under
   SpecCreateRead *)

\* the request has inserted its parent row
ParentInserted(c) == cre[c].pc \in {"expand", "children", "done"}

\* the store holds nothing of the request, or its parent with every
\* occurrence of its rule
NoneOrAll(store, c) ==
    LET family == Family(store, cre[c].event_id)
        r == generate_recurring_events(BaseEventDict(cre[c].event_id, cre[c].event))
    IN  \/ family = {}
        \/ /\ ~r.raised
           /\ Cardinality(family) = 1 + Len(r.events)

\* C22: create_event persists a recurring parent and its materialized
\* children as one atomic unit: neither the committed rows, nor what a reader
\* on another connection has seen, whether the request is in flight or has
\* failed in the expansion or in the INSERT of a child, holds the recurring
\* parent with none or only part of its children.
C22_ParentAndChildrenAtomic ==
    \A c \in Connections :
        (ParentInserted(c) /\ TruthyBool(cre[c].event.is_recurring))
            => NoneOrAll(events, c) /\ NoneOrAll(seen.events, c)

----------------------------------------------------------------------------
(* Properties of interleaved RSVP requests, checked under SpecRsvpSteps *)

\* no RSVP request stands between its checks and its write
RsvQuiet == \A c \in Connections : rsv[c].pc = "idle"

\* C23: when two requests that would each add a going RSVP to the same
\* capped event interleave between reading the going count and writing the
\* RSVP, the event still ends, once the requests are over, with at most
\* max_attendees going RSVPs.
C23_InterleavedWithinCap ==
    RsvQuiet =>
        \A e \in events :
            TruthyInt(e.max_attendees)
                => current_going(rsvps, e.id) <= Val(e.max_attendees)

====
